---- MODULE Spec2Model ----
(***************************************************************************)
(* A model of salobj: the component state machine of BaseCsc               *)
(* (python/salobj/base_csc.py) and the session object SalInfo              *)
(* (python/lsst/ts/salobj/sal_info.py) with its command tracking.          *)
(*                                                                         *)
(* Two specifications share the variables:                                 *)
(*   SpecCsc  the component state machine, one command at a time;          *)
(*   Spec     the session: start, read loop, commands, close.              *)
(***************************************************************************)
EXTENDS Integers, Sequences, FiniteSets, TLC

VARIABLES
    \* ---- BaseCsc ----
    state,          \* BaseCsc.state
    summary_state,  \* BaseCsc.summary_state.summaryState ("none": never set)
    published,      \* the samples put on evt_summaryState, oldest first
    pc,             \* position of the command handler ("idle": none runs)
    cmd,            \* name of the running (or last) operation
    begin_raises,   \* does begin_<cmd> raise in this invocation
    end_raises,     \* does end_<cmd> raise in this invocation
    curr_state,     \* local curr_state of _do_change_state
    pre_state,      \* state when the operation was called
    pub0,           \* Len(published) when the operation was called
    die0,           \* num_die when the operation was called
    outcome,        \* how the last operation returned
    cmd_ack,        \* final acknowledgment reported for the last command
    trace,          \* steps the running (or last) operation performed
    num_die,        \* number of die() tasks scheduled
    loop_closed,    \* die() has closed the event loop
    ncmds           \* number of operations called so far

csc_vars == <<state, summary_state, published, pc, cmd, begin_raises,
              end_raises, curr_state, pre_state, pub0, die0, outcome,
              cmd_ack, trace, num_die, loop_closed, ncmds>>

VARIABLES
    \* ---- SalInfo ----
    isopen,         \* SalInfo.isopen
    start_called,   \* SalInfo.start_called
    start_task,     \* SalInfo.start_task: "pending", "done", "exception"
    done_task,      \* SalInfo.done_task: "pending", "done"
    read_loop_task, \* SalInfo._read_loop_task
    readers,        \* SalInfo._readers: the read topics, in insertion order
    reader_isopen,  \* ReadTopic.isopen of each read topic
    writers,        \* SalInfo._writers
    writer_isopen,  \* WriteTopic.isopen of each write topic
    running_cmds,   \* SalInfo._running_cmds: the keys (private_seqNum)
    cmd_info,       \* the CommandInfo made for each sequence number
    next_seq,       \* the next private_seqNum the command writer assigns
    guard_triggered,\* SalInfo._guardcond has been triggered
    in_domain,      \* the SalInfo is in domain.salinfo_set
    start_pc,       \* position of the start() coroutine
    loop_pc,        \* position of the _read_loop() coroutine
    conditions,     \* _read_loop: conditions of the batch still to handle
    read_errors,    \* how many times take_cond has raised in _read_loop
    close_pc,       \* position of each caller of close()
    steps_run,      \* how many times each shutdown step has run
    history_readers,\* _wait_history: the readers it has still to look at
    num_ok,         \* _wait_history: num_ok
    num_checked,    \* _wait_history: num_checked
    isok,           \* start(): isok, the result of _wait_history
    start_log,      \* what start() logged after the wait: "info", "warning"
    history_errors, \* exceptions raised while start() read the history
    replayed,       \* the historical data start() has queued
    num_history,    \* how many times start() has read the historical data
    num_loops,      \* how many times a _read_loop task has been created
    \* ---- the transport and the commanded component ----
    ack_wire,       \* ackcmd samples written and not yet taken by the reader
    ctrl_stage,     \* per command: acknowledgments its controller has sent
    num_acks,       \* ackcmd samples written so far
    echo_identity   \* does the controller echo identity in its ackcmd

sal_vars == <<num_history, num_loops, read_errors, history_readers, num_ok,
              num_checked, isok, start_log, history_errors, replayed,
              isopen, start_called, start_task, done_task, read_loop_task,
              readers, reader_isopen, writers, writer_isopen, running_cmds,
              cmd_info, next_seq, guard_triggered, in_domain, start_pc,
              loop_pc, conditions, close_pc, steps_run, ack_wire,
              ctrl_stage, num_acks, echo_identity>>

VARIABLES
    \* ---- a ControllerCommand with a callback (cmd_wait of TestCsc) ----
    allow_multiple_callbacks, \* may callbacks run at the same time
    cmd_queue,      \* the commands read and not yet given to the callback
    callback_busy,  \* the invocation the callback loop awaits (0: none)
    handler,        \* per invocation: "none", "queued", "running", "done"
    handler_ack,    \* per invocation: the final acknowledgment written
    events,         \* the starts and ends of the callback, in order
    next_inv        \* the next invocation to arrive

ctl_vars == <<allow_multiple_callbacks, cmd_queue, callback_busy, handler,
              handler_ack, events, next_inv>>

VARIABLES
    \* ---- a read topic of the Remote (the reader "summaryState") ----
    data_wire,      \* samples published and not yet taken by the reader
    num_put,        \* number of samples published
    data_queue,     \* ReadTopic._data_queue, oldest first
    current_data,   \* ReadTopic._current_data (0: no data seen)
    has_callback,   \* a callback is registered
    callback_log,   \* the samples the callback was called with, in order
    next_task,      \* a next() is waiting for data: "none", "pending"
    pulled,         \* the samples get_oldest and next returned, in order
    arrived,        \* the samples given to _queue_data, in order
    last_op,        \* the operation the consumer just called and its result
    flushed,        \* samples have been discarded by flush
    pull_issued     \* a pull operation has been issued

top_vars == <<data_wire, num_put, data_queue, current_data, has_callback,
              callback_log, next_task, pulled, arrived, last_op, flushed,
              pull_issued>>

VARIABLES
    \* ---- registration of topics; the start of a Controller ----
    waitset,        \* SalInfo._waitset: the read conditions attached
    last_call,      \* the last call of add_reader or start, and its result
    controller_start_called, \* Controller.start_called
    controller_start_task,   \* Controller.start_task
    task_scheduled, \* the task of the constructor has not run yet
    controller_pc,  \* position of the call of Controller.start that runs
    controller_runner \* who made that call: "task" or "user"

life_vars == <<waitset, last_call, controller_start_called,
               controller_start_task, task_scheduled, controller_pc,
               controller_runner>>

VARIABLES
    \* ---- Controller.close ----
    controller_isopen,    \* Controller.isopen
    controller_done_task, \* Controller.done_task: "pending", "None" (the
                          \* result) or the exception set
    controller_close_pc,  \* position of each caller of Controller.close
    close_exception,      \* the exception argument of each call
    first_closer,         \* the caller of the first call ("none": no call)
    close_steps,          \* how many times each step of the shutdown ran
    close_tasks_raised    \* close_tasks raised an exception

cclose_vars == <<controller_isopen, controller_done_task,
                 controller_close_pc, close_exception, first_closer,
                 close_steps, close_tasks_raised>>

VARIABLES
    \* ---- Controller.__init__ and the do_<name> methods ----
    command_names,  \* salinfo.command_names
    do_names,       \* the commands the class has a do_<name> method for
    do_callbacks,   \* the do_callbacks argument
    constructed,    \* "none", "ok", or the exception __init__ raised
    callback        \* per command: "none", "do" (its do_<name> method) or
                    \* "reject_command"

ctor_vars == <<command_names, do_names, do_callbacks, constructed, callback>>

VARIABLES
    \* ---- LogMixin ----
    log_queue,       \* LogMixin._log_queue: the records logged, oldest first
    num_logged,      \* number of records logged
    log_published,   \* the records put on logMessage, each with the number
                     \* of polling intervals that had passed
    enable_logging,  \* LogMixin._enable_logging
    log_pc,          \* position of _log_messages_loop: "top", "sleep", "done"
    num_sleeps,      \* polling intervals that have passed
    stop_pc,         \* position of stop_logging
    pending_at_stop, \* records in the queue when stop_logging was called
    sent_after_stop  \* records published since stop_logging was called

log_vars == <<log_queue, num_logged, log_published, enable_logging, log_pc,
              num_sleeps, stop_pc, pending_at_stop, sent_after_stop>>

VARIABLES
    \* ---- index_generator as the source of command sequence numbers ----
    gen_state,      \* "none", "made", or the exception index_generator raised
    gen_imin,       \* imin
    gen_imax,       \* imax
    gen_index,      \* index_impl: the local variable index
    cmd_seqs        \* the commands issued: topic and private_seqNum, in order

seq_vars == <<gen_state, gen_imin, gen_imax, gen_index, cmd_seqs>>

VARIABLES
    \* ---- acknowledgments of the commands of another Remote ----
    other_acks      \* the ackcmd samples written for another Remote's
                    \* commands that pass the reader's query, in order

inb_vars == <<other_acks>>

VARIABLES
    \* ---- the attributes of the read topic "summaryState" ----
    max_history     \* ReadTopic.max_history

rt_vars == <<max_history>>

\* the parts of a Controller other than its session and its commands
ext_vars == <<cclose_vars, ctor_vars, log_vars, seq_vars, inb_vars, rt_vars>>

vars == <<csc_vars, sal_vars, ctl_vars, top_vars, life_vars, ext_vars>>

all_but_csc == <<sal_vars, ctl_vars, top_vars, life_vars, ext_vars>>

all_but_sal == <<csc_vars, ctl_vars, top_vars, life_vars, ext_vars>>

\* for start() and the read loop, which give data to the read topic
all_but_sal_top == <<csc_vars, ctl_vars, life_vars, ext_vars>>

all_but_ctl == <<csc_vars, sal_vars, top_vars, life_vars, ext_vars>>

all_but_ext == <<csc_vars, sal_vars, ctl_vars, top_vars, life_vars>>

all_but_cclose == <<all_but_ext, ctor_vars, log_vars, seq_vars, inb_vars,
                   rt_vars>>

all_but_ctor == <<all_but_ext, cclose_vars, log_vars, seq_vars, inb_vars,
                 rt_vars>>

all_but_log == <<all_but_ext, cclose_vars, ctor_vars, seq_vars, inb_vars,
                rt_vars>>

all_but_seq == <<all_but_ext, cclose_vars, ctor_vars, log_vars, inb_vars,
                rt_vars>>

all_but_sal_inb == <<csc_vars, ctl_vars, top_vars, life_vars, cclose_vars,
                     ctor_vars, log_vars, seq_vars, rt_vars>>

all_but_rt == <<all_but_ext, cclose_vars, ctor_vars, log_vars, seq_vars,
               inb_vars>>

(***************************************************************************)
(* Bounds                                                                  *)
(***************************************************************************)
\* operations (commands and fault entries) called in one behaviour
MaxCmds == 4
\* commands one Remote issues in one behaviour
MaxSeq == 2
\* ackcmd samples the controller writes in one behaviour
MaxAcks == 3
\* invocations of one command that arrive in one behaviour
MaxInv == 4
\* samples published on the read topic in one behaviour
MaxSamples == 3
\* ReadTopic: queue_len, the maxlen of _data_queue
QueueLen == 2
\* calls of add_reader and repeated calls of start in one behaviour
MaxCalls == 3
\* records logged in one behaviour
MaxLogs == 3
\* polling intervals of the log loop in one behaviour
MaxIntervals == 3
\* the largest value given as imin, imax or i0 of index_generator
MaxIndex == 3
\* commands that take a sequence number in one behaviour
MaxIssued == 4
\* ackcmd samples for another Remote's commands in one behaviour
MaxOther == 1

\* the largest max_history an event reader is made with
MaxHistory == 2

(***************************************************************************)
(* BaseCsc                                                                 *)
(***************************************************************************)
State == {"OFFLINE", "STANDBY", "DISABLED", "ENABLED", "FAULT"}

TransitionCommands ==
    {"disable", "enable", "enterControl", "exitControl", "standby", "start"}

\* The arguments each do_<name> passes to _do_change_state.
do_disable ==
    [allowed_curr_states |-> {"ENABLED"}, new_state |-> "DISABLED"]

do_enable_AllowsStandby ==
    [allowed_curr_states |-> {"DISABLED", "STANDBY"}, new_state |-> "ENABLED"]

do_enable ==
    [allowed_curr_states |-> {"DISABLED"}, new_state |-> "ENABLED"]

do_enterControl ==
    [allowed_curr_states |-> {"OFFLINE", "FAULT"}, new_state |-> "STANDBY"]

do_exitControl ==
    [allowed_curr_states |-> {"STANDBY"}, new_state |-> "OFFLINE"]

do_standby ==
    [allowed_curr_states |-> {"DISABLED"}, new_state |-> "STANDBY"]

do_start_ToEnabled ==
    [allowed_curr_states |-> {"STANDBY"}, new_state |-> "ENABLED"]

do_start ==
    [allowed_curr_states |-> {"STANDBY"}, new_state |-> "DISABLED"]

DoArgs(c) ==
    CASE c = "disable"      -> do_disable
      [] c = "enable"       -> do_enable
      [] c = "enterControl" -> do_enterControl
      [] c = "exitControl"  -> do_exitControl
      [] c = "standby"      -> do_standby
      [] c = "start"        -> do_start

\* The acknowledgment the controller reports for a callback that returned
\* ("ok") or raised.
AckForOutcome(o) == IF o = "ok" THEN "COMPLETE" ELSE "FAILED"

InitCsc ==
    /\ state = "STANDBY"
    /\ summary_state = "none"
    /\ published = <<>>
    /\ pc = "idle"
    /\ cmd = "none"
    /\ begin_raises = FALSE
    /\ end_raises = FALSE
    /\ curr_state = "STANDBY"
    /\ pre_state = "STANDBY"
    /\ pub0 = 0
    /\ die0 = 0
    /\ outcome = "none"
    /\ cmd_ack = "none"
    /\ trace = <<>>
    /\ num_die = 0
    /\ loop_closed = FALSE
    /\ ncmds = 0

\* The callback returns or raises: the command is acknowledged.
Return(o) ==
    /\ pc' = "idle"
    /\ outcome' = o
    /\ cmd_ack' = AckForOutcome(o)

\* A transition command arrives and its do_<name> callback is called.
\* b, e: whether this invocation's begin_ and end_ hooks raise.
Dispatch(c, b, e) ==
    /\ pc = "idle"
    /\ ~loop_closed
    /\ ncmds < MaxCmds
    /\ ncmds' = ncmds + 1
    /\ pc' = "check"
    /\ cmd' = c
    /\ begin_raises' = b
    /\ end_raises' = e
    /\ pre_state' = state
    /\ pub0' = Len(published)
    /\ die0' = num_die
    /\ outcome' = "none"
    /\ cmd_ack' = "none"
    /\ trace' = <<>>
    /\ UNCHANGED <<state, summary_state, published, curr_state, num_die,
                   loop_closed>>

\* Controller.__init__: the commands that need no do_<name> method
OPTIONAL_COMMAND_NAMES ==
    {"abort", "enterControl", "setValue", "setSimulationMode"}

\* Controller.__init__: how the callback given to an optional command
\* without a do_<name> method ends.
reject_command_Returns == "ok"

reject_command == "ExpectedError"

\* A command without a do_<name> method arrives: its callback is
\* reject_command, which raises ExpectedError("Not supported by this CSC").
Reject(c) ==
    /\ c \in OPTIONAL_COMMAND_NAMES \ TransitionCommands
    /\ pc = "idle"
    /\ ~loop_closed
    /\ ncmds < MaxCmds
    /\ ncmds' = ncmds + 1
    /\ cmd' = c
    /\ pre_state' = state
    /\ pub0' = Len(published)
    /\ die0' = num_die
    /\ trace' = <<>>
    /\ Return(reject_command)
    /\ UNCHANGED <<state, summary_state, published, begin_raises, end_raises,
                   curr_state, num_die, loop_closed>>

\* _do_change_state: the step that follows the check of the state.
after_check_SkipsBegin == "mutate"

after_check == "begin"

\* _do_change_state: curr_state = self.state; reject a state not allowed.
CheckState ==
    /\ pc = "check"
    /\ curr_state' = state
    /\ IF state \notin DoArgs(cmd).allowed_curr_states
       THEN Return("ExpectedError")
       ELSE /\ pc' = after_check
            /\ UNCHANGED <<outcome, cmd_ack>>
    /\ UNCHANGED <<state, summary_state, published, cmd, begin_raises,
                   end_raises, pre_state, pub0, die0, trace, num_die,
                   loop_closed, ncmds>>

\* _do_change_state: the step that follows begin_<cmd>: none ("idle") if
\* it raised, for the exception leaves _do_change_state at once.
after_begin_GoesOn(raises) == "mutate"

after_begin(raises) == IF raises THEN "idle" ELSE "mutate"

\* _do_change_state: getattr(self, f"begin_{cmd_name}")(id_data)
BeginHook ==
    /\ pc = "begin"
    /\ trace' = Append(trace, "begin")
    /\ IF after_begin(begin_raises) = "idle"
       THEN Return("Exception")
       ELSE /\ pc' = after_begin(begin_raises)
            /\ UNCHANGED <<outcome, cmd_ack>>
    /\ UNCHANGED <<state, summary_state, published, cmd, begin_raises,
                   end_raises, curr_state, pre_state, pub0, die0, num_die,
                   loop_closed, ncmds>>

\* _do_change_state: self.state = new_state
Mutate ==
    /\ pc = "mutate"
    /\ state' = DoArgs(cmd).new_state
    /\ trace' = Append(trace, "mutate")
    /\ pc' = "end"
    /\ UNCHANGED <<summary_state, published, cmd, begin_raises, end_raises,
                   curr_state, pre_state, pub0, die0, outcome, cmd_ack,
                   num_die, loop_closed, ncmds>>

\* The state after end_<cmd> raised.
EndHookNoRollback == state

EndHookRollback == curr_state

\* _do_change_state: try: end_<cmd>(id_data) except: state = curr_state; raise
EndHook ==
    /\ pc = "end"
    /\ trace' = Append(trace, "end")
    /\ IF end_raises
       THEN /\ state' = EndHookRollback
            /\ Return("Exception")
       ELSE /\ pc' = "report"
            /\ UNCHANGED <<state, outcome, cmd_ack>>
    /\ UNCHANGED <<summary_state, published, cmd, begin_raises, end_raises,
                   curr_state, pre_state, pub0, die0, num_die, loop_closed,
                   ncmds>>

\* The samples on evt_summaryState after report_summary_state.
report_summary_state_NoPut == published

report_summary_state == Append(published, state)

\* _do_change_state: self.report_summary_state(), the last statement.
\* do_exitControl goes on to schedule die(); the others return.
Report ==
    /\ pc = "report"
    /\ summary_state' = state
    /\ published' = report_summary_state
    /\ trace' = Append(trace, "report")
    /\ IF cmd = "exitControl"
       THEN /\ pc' = "die"
            /\ UNCHANGED <<outcome, cmd_ack>>
       ELSE Return("ok")
    /\ UNCHANGED <<state, cmd, begin_raises, end_raises, curr_state,
                   pre_state, pub0, die0, num_die, loop_closed, ncmds>>

\* The number of die() tasks after do_exitControl's last statement.
ensure_future_die_Forgotten == num_die

ensure_future_die == num_die + 1

\* do_exitControl: asyncio.ensure_future(die())
ScheduleDie ==
    /\ pc = "die"
    /\ num_die' = ensure_future_die
    /\ trace' = Append(trace, "die")
    /\ Return("ok")
    /\ UNCHANGED <<state, summary_state, published, cmd, begin_raises,
                   end_raises, curr_state, pre_state, pub0, die0,
                   loop_closed, ncmds>>

\* die(): after the sleep, close the event loop: nothing runs any more.
Die ==
    /\ pc = "idle"
    /\ num_die > 0
    /\ ~loop_closed
    /\ loop_closed' = TRUE
    /\ UNCHANGED <<state, summary_state, published, pc, cmd, begin_raises,
                   end_raises, curr_state, pre_state, pub0, die0, outcome,
                   cmd_ack, trace, num_die, ncmds>>

\* fault(): self.state = State.FAULT; self.report_summary_state()
Fault ==
    /\ pc = "idle"
    /\ ~loop_closed
    /\ ncmds < MaxCmds
    /\ ncmds' = ncmds + 1
    /\ cmd' = "fault"
    /\ pre_state' = state
    /\ pub0' = Len(published)
    /\ die0' = num_die
    /\ state' = "FAULT"
    /\ summary_state' = "FAULT"
    /\ published' = Append(published, "FAULT")
    /\ trace' = <<"mutate", "report">>
    /\ outcome' = "ok"
    /\ cmd_ack' = "none"
    /\ UNCHANGED <<pc, begin_raises, end_raises, curr_state, num_die,
                   loop_closed>>

NextCsc ==
    \/ \E c \in TransitionCommands, b \in BOOLEAN, e \in BOOLEAN :
           Dispatch(c, b, e) /\ UNCHANGED all_but_csc
    \/ CheckState /\ UNCHANGED all_but_csc
    \/ BeginHook /\ UNCHANGED all_but_csc
    \/ Mutate /\ UNCHANGED all_but_csc
    \/ EndHook /\ UNCHANGED all_but_csc
    \/ Report /\ UNCHANGED all_but_csc
    \/ ScheduleDie /\ UNCHANGED all_but_csc
    \/ Die /\ UNCHANGED all_but_csc
    \/ Fault /\ UNCHANGED all_but_csc
    \/ \E c \in OPTIONAL_COMMAND_NAMES : Reject(c) /\ UNCHANGED all_but_csc

(***************************************************************************)
(* SalInfo: the session of one Remote                                      *)
(***************************************************************************)
Seqs == 1..MaxSeq

\* The callers of close(): b calls while a's call runs, or after it.
Closers == {"a", "b"}

\* The read topics and write topics of the Remote, in the order its
\* constructor adds them.
ReaderNames == {"ackcmd", "summaryState"}

WriterNames == {"cmd"}

\* The read topics a caller may try to register.
TopicNames == ReaderNames \cup {"heartbeat"}

\* domain.identity of this session, and the identity of another one
Identity == "me"

\* Acknowledgment codes that end a command.
TerminalAcks ==
    {"COMPLETE", "FAILED", "ABORTED", "STALLED", "TIMEOUT", "NOACK"}

Last(q) == q[Len(q)]

Front(q) == SubSeq(q, 1, Len(q) - 1)

Range(q) == {q[i] : i \in 1..Len(q)}

topic_vars == <<readers, reader_isopen, writers, writer_isopen>>

cmd_vars == <<running_cmds, cmd_info, next_seq>>

wire_vars == <<ack_wire, ctrl_stage, num_acks, echo_identity>>

start_vars == <<start_called, start_task, start_pc, num_history, num_loops,
                history_readers, num_ok, num_checked, isok, start_log,
                history_errors, replayed>>

loop_vars == <<read_loop_task, loop_pc, conditions, read_errors>>

close_vars == <<isopen, done_task, guard_triggered, in_domain, close_pc,
                steps_run>>

\* A CommandInfo: the last acknowledgment and its result text, the
\* acknowledgments received in order, the pending wait ("none", "next",
\* "final"), what the last wait resolved with, and the acknowledgment
\* carried by the AckTimeoutError of a wait that timed out.
NewCommandInfo(mode) ==
    [ackcmd |-> "none", result |-> "", acks |-> <<>>, waiting |-> mode,
     resolved |-> "none", timeout_ack |-> "none"]

NoCommandInfo == NewCommandInfo("none")

\* CommandInfo.add_ackcmd: record the acknowledgment and notify the waiter;
\* a wait for the next acknowledgment resolves with any status, a wait for
\* the final one only with a terminal status.
add_ackcmd_FinalOnAny(info, data) ==
    [info EXCEPT !.ackcmd = data.ack,
                 !.acks = Append(@, data.ack),
                 !.waiting = "none",
                 !.resolved = IF info.waiting # "none" THEN data.ack ELSE @]

add_ackcmd(info, data) ==
    LET resolves == \/ info.waiting = "next"
                    \/ info.waiting = "final" /\ data.ack \in TerminalAcks
    IN  [info EXCEPT !.ackcmd = data.ack,
                     !.acks = Append(@, data.ack),
                     !.waiting = IF resolves THEN "none" ELSE @,
                     !.resolved = IF resolves THEN data.ack ELSE @]

\* add_ackcmd's return value: is this a final acknowledgment
isdone(data) == data.ack \in TerminalAcks

\* CommandInfo.abort(result): the command ends with a synthetic ABORTED
\* acknowledgment, which resolves the pending wait.
abort(info, result) ==
    [info EXCEPT !.ackcmd = "ABORTED",
                 !.result = result,
                 !.waiting = "none",
                 !.resolved = IF info.waiting # "none" THEN "ABORTED" ELSE @]

\* _ackcmd_callback: "if data.identity": the identity field is populated.
identity_set_Always(data) == TRUE

identity_set(data) == data.identity # ""

\* _ackcmd_callback: the sample is for a command of a different Remote.
identity_differs_Never(data) == FALSE

identity_differs(data) == identity_set(data) /\ data.identity # Identity

\* SalInfo._ackcmd_callback, on st = [running_cmds, cmd_info].
ackcmd_callback_NeverRemoves(st, data) ==
    IF data.private_seqNum \notin st.running_cmds \/ identity_differs(data)
    THEN st
    ELSE [running_cmds |-> st.running_cmds,
          cmd_info |->
              [st.cmd_info EXCEPT ![data.private_seqNum] =
                   add_ackcmd(@, data)]]

ackcmd_callback(st, data) ==
    IF st.running_cmds = {}
    THEN st
    ELSE IF identity_differs(data)
    THEN st
    ELSE IF data.private_seqNum \notin st.running_cmds
    THEN st
    ELSE [running_cmds |->
              IF isdone(data)
              THEN st.running_cmds \ {data.private_seqNum}
              ELSE st.running_cmds,
          cmd_info |->
              [st.cmd_info EXCEPT ![data.private_seqNum] =
                   add_ackcmd(@, data)]]

\* ReadTopic._queue_data of the ackcmd reader: the callback is called once
\* per sample, in order.
RECURSIVE queue_data(_, _)
queue_data(st, sd_list) ==
    IF sd_list = <<>>
    THEN st
    ELSE queue_data(ackcmd_callback(st, Head(sd_list)), Tail(sd_list))

\* _read_loop: the valid samples of data_list, in the order read.
sd_list_KeepsInvalid(data_list) == data_list

sd_list(data_list) == SelectSeq(data_list, LAMBDA d : d.valid_data)

(* ---- the read topic ---- *)

\* An operation of the consumer and how it ended: result "data" with the
\* sample as value, or "None", "ok", "waiting" or the name of an error.
Op(o, r, v) == [op |-> o, result |-> r, value |-> v]

NoOp == Op("none", "none", 0)

\* The last n elements of q (all of q if it is shorter).
LastN(n, q) == IF Len(q) <= n THEN q ELSE SubSeq(q, Len(q) - n + 1, Len(q))

\* take_cond(condition, n): the oldest n samples the reader holds.
take_cond(wire, n) == IF Len(wire) <= n THEN wire ELSE SubSeq(wire, 1, n)

\* What take_cond(condition, n) leaves in the reader.
left_by_take(wire, n) ==
    IF Len(wire) <= n THEN <<>> ELSE SubSeq(wire, n + 1, Len(wire))

\* A sample as read: its number, and si.valid_data.
Sample(n, valid) == [seq |-> n, valid_data |-> valid]

\* _sample_to_data(sd, si): the data of a sample.
sample_to_data(d) == d.seq

Data(data_list) ==
    [i \in 1..Len(sd_list(data_list)) |-> sample_to_data(sd_list(data_list)[i])]

\* collections.deque(maxlen=QueueLen).append: a full queue drops its
\* oldest item.
deque_append_DropNewest(q, x) ==
    IF Len(q) >= QueueLen THEN q ELSE Append(q, x)

deque_append(q, x) == LastN(QueueLen, Append(q, x))

\* collections.deque.popleft: the item that leaves the queue.
oldest_Newest(q) == Last(q)

oldest(q) == Head(q)

\* The state of the read topic, as a record.
TopicState ==
    [data_queue |-> data_queue, current_data |-> current_data,
     callback_log |-> callback_log, next_task |-> next_task,
     pulled |-> pulled, arrived |-> arrived]

\* ReadTopic._queue_data, one sample: remember it as the current data;
\* with a callback, call it; else queue the sample and, if a next() is
\* waiting, give it the oldest queued sample.
queue_one(t, x) ==
    LET t1 == [t EXCEPT !.current_data = x, !.arrived = Append(@, x)]
    IN  IF has_callback
        THEN [t1 EXCEPT !.callback_log = Append(@, x)]
        ELSE LET q == deque_append(t1.data_queue, x)
             IN  IF t1.next_task = "pending"
                 THEN [t1 EXCEPT !.data_queue = Tail(q),
                                 !.next_task = "none",
                                 !.pulled = Append(@, oldest(q))]
                 ELSE [t1 EXCEPT !.data_queue = q]

\* ReadTopic._queue_data(sd_list)
RECURSIVE topic_queue_data(_, _)
topic_queue_data(t, data) ==
    IF data = <<>>
    THEN t
    ELSE topic_queue_data(queue_one(t, Head(data)), Tail(data))

\* The read topic takes the state t.
SetTopic(t) ==
    /\ data_queue' = t.data_queue
    /\ current_data' = t.current_data
    /\ callback_log' = t.callback_log
    /\ next_task' = t.next_task
    /\ pulled' = t.pulled
    /\ arrived' = t.arrived

InitTop ==
    /\ data_wire = <<>>
    /\ num_put = 0
    /\ data_queue = <<>>
    /\ current_data = 0
    /\ has_callback = FALSE
    /\ callback_log = <<>>
    /\ next_task = "none"
    /\ pulled = <<>>
    /\ arrived = <<>>
    /\ last_op = NoOp
    /\ flushed = FALSE
    /\ pull_issued = FALSE

InitSal ==
    /\ isopen = TRUE
    /\ start_called = FALSE
    /\ start_task = "pending"
    /\ done_task = "pending"
    /\ read_loop_task = "initial"
    /\ readers = <<"ackcmd", "summaryState">>
    /\ reader_isopen = [r \in TopicNames |-> TRUE]
    /\ writers = <<"cmd">>
    /\ writer_isopen = [w \in WriterNames |-> TRUE]
    /\ running_cmds = {}
    /\ cmd_info = [s \in Seqs |-> NoCommandInfo]
    /\ next_seq = 1
    /\ guard_triggered = FALSE
    /\ in_domain = TRUE
    /\ start_pc = "none"
    /\ history_readers = <<>>
    /\ num_ok = 0
    /\ num_checked = 0
    /\ isok = FALSE
    /\ start_log = "none"
    /\ history_errors = 0
    /\ replayed = <<>>
    /\ num_history = 0
    /\ num_loops = 0
    /\ loop_pc = "none"
    /\ conditions = {}
    /\ read_errors = 0
    /\ close_pc = [p \in Closers |-> "idle"]
    /\ steps_run = [trigger |-> 0, cancel |-> 0, close_topic |-> 0,
                    abort |-> 0, remove |-> 0, set_done |-> 0]
    /\ ack_wire = <<>>
    /\ ctrl_stage = [s \in Seqs |-> 0]
    /\ num_acks = 0
    /\ echo_identity = TRUE

(* ---- started ---- *)

\* SalInfo.started: start_task is done, not cancelled and has no exception.
started == start_task = "done"

\* SalInfo.assert_started: "ok" or the exception raised.
assert_started == IF ~started THEN "RuntimeError" ELSE "ok"

(* ---- start ---- *)

\* The read conditions with data to read.
Triggered ==
    (IF ack_wire # <<>> THEN {"ackcmd"} ELSE {})
        \cup (IF data_wire # <<>> THEN {"summaryState"} ELSE {})

\* ReadTopic.volatile: the ackcmd reader wants no historical data; the
\* readers of events do.
volatile(r) == r = "ackcmd"

\* start(), up to the await of _wait_history in the executor; the thread
\* starts with the list of the readers.
StartCall ==
    /\ ~start_called
    /\ start_called' = TRUE
    /\ start_pc' = "history"
    /\ history_readers' = readers
    /\ UNCHANGED <<start_task, num_history, num_loops, num_ok, num_checked,
                   isok, start_log, history_errors, replayed, topic_vars,
                   cmd_vars, wire_vars, loop_vars, close_vars>>

\* _wait_history: the value returned after the last reader.
wait_history_result(ok, checked) == ok > 0 \/ checked = 0

\* _wait_history, in its thread, at the next reader of its list: return
\* False if the session is closed; skip a reader that is volatile or
\* closed; else wait for its historical data (got: they came in time).
\* After the last reader the result is returned to start().
WaitHistory(got) ==
    /\ start_pc = "history"
    /\ IF history_readers = <<>>
       THEN /\ isok' = wait_history_result(num_ok, num_checked)
            /\ start_pc' = "waited"
            /\ UNCHANGED <<history_readers, num_ok, num_checked>>
       ELSE IF ~isopen
       THEN /\ isok' = FALSE
            /\ start_pc' = "waited"
            /\ UNCHANGED <<history_readers, num_ok, num_checked>>
       ELSE LET reader == Head(history_readers)
                skip == volatile(reader) \/ ~reader_isopen[reader]
                ok == IF ~skip /\ got THEN num_ok + 1 ELSE num_ok
                checked == IF skip THEN num_checked ELSE num_checked + 1
            IN  /\ history_readers' = Tail(history_readers)
                /\ num_ok' = ok
                /\ num_checked' = checked
                /\ IF history_readers' = <<>>
                   THEN /\ isok' = wait_history_result(ok, checked)
                        /\ start_pc' = "waited"
                   ELSE UNCHANGED <<isok, start_pc>>
    /\ UNCHANGED <<start_called, start_task, num_history, num_loops,
                   start_log, history_errors, replayed, topic_vars, cmd_vars,
                   wire_vars, loop_vars, close_vars>>

\* start(): the reader gets historical data: it is not volatile, it is
\* open and its read condition is triggered.
history_wanted_ClosedToo(r) == ~volatile(r) /\ r \in Triggered

history_wanted(r) == ~volatile(r) /\ reader_isopen[r] /\ r \in Triggered

\* start(): the historical data queued for the read topic: of the samples
\* taken (all the reader holds: fewer than DDS_READ_QUEUE_LEN), the last
\* max_history.
history_Skipped(data_list) == <<>>

history(data_list) ==
    IF max_history > 0 THEN LastN(max_history, Data(data_list)) ELSE <<>>

\* start(): does it raise, given the result of the wait and the number of
\* times take_cond raised (it is tried twice).
start_raises_IfNotOk(ok, nerr) == nerr >= 2 \/ ~ok

start_raises(ok, nerr) == nerr >= 2

\* start(), after _wait_history: return if closed; log the result of the
\* wait; read the historical data of the readers that want them (nerr:
\* how many times take_cond raises: after the first time it is called
\* again, the second time start() raises, as it does on any other
\* exception); start the read loop.
StartResume(nerr) ==
    /\ start_pc = "waited"
    /\ history_readers' = <<>>
    /\ num_ok' = 0
    /\ num_checked' = 0
    /\ isok' = FALSE
    /\ IF ~isopen
       THEN /\ start_pc' = "returned"
            /\ UNCHANGED <<start_task, read_loop_task, loop_pc, data_wire,
                           ack_wire, num_history, num_loops, start_log,
                           history_errors, replayed>>
            /\ SetTopic(TopicState)
       ELSE /\ nerr = 1 => \E r \in Range(readers) : history_wanted(r)
            /\ start_log' = IF isok THEN "info" ELSE "warning"
            /\ history_errors' = nerr
            /\ num_history' = num_history + 1
            /\ IF start_raises(isok, nerr)
               THEN /\ start_pc' = "raised"
                    /\ start_task' = "exception"
                    /\ UNCHANGED <<read_loop_task, loop_pc, data_wire,
                                   ack_wire, num_loops, replayed>>
                    /\ SetTopic(TopicState)
               ELSE /\ start_pc' = "returned"
                    /\ num_loops' = num_loops + 1
                    /\ ack_wire' = IF history_wanted("ackcmd")
                                   THEN <<>> ELSE ack_wire
                    /\ IF history_wanted("summaryState")
                       THEN /\ data_wire' = <<>>
                            /\ replayed' = history(data_wire)
                            /\ SetTopic(topic_queue_data(TopicState,
                                                         history(data_wire)))
                       ELSE /\ UNCHANGED <<data_wire, replayed>>
                            /\ SetTopic(TopicState)
                    /\ read_loop_task' = "running"
                    /\ loop_pc' = "wait"
                    /\ start_task' = "done"
    /\ UNCHANGED <<num_put, has_callback, last_op, flushed, pull_issued>>
    /\ UNCHANGED <<start_called, conditions, read_errors, topic_vars,
                   cmd_vars, ctrl_stage, num_acks, echo_identity,
                   close_vars>>

(* ---- the read loop ---- *)

\* The loop task ends: returns, or logs an exception and returns.
LoopEnds(how) ==
    /\ read_loop_task' = how
    /\ loop_pc' = "none"
    /\ conditions' = {}

\* _read_loop: the conditions of conds whose reader is there and open; the
\* others are passed over ("continue").
Readable(conds) == {c \in conds : c \in Range(readers) /\ reader_isopen[c]}

\* _read_loop: the next condition of the batch conds that has a reader to
\* read (c): take its samples (fails: take_cond raises, which ends the
\* loop), queue the valid ones and free the event loop. With no such
\* condition the batch is over.
ReadCondition(c, fails, conds) ==
    IF Readable(conds) = {}
    THEN /\ conditions' = {}
         /\ loop_pc' = "wait"
         /\ UNCHANGED <<read_loop_task, read_errors, running_cmds,
                        cmd_info, ack_wire, data_wire>>
         /\ SetTopic(TopicState)
    ELSE /\ c \in Readable(conds)
         /\ IF fails
            THEN /\ LoopEnds("failed")
                 /\ read_errors' = read_errors + 1
                 /\ UNCHANGED <<running_cmds, cmd_info, ack_wire, data_wire>>
                 /\ SetTopic(TopicState)
            ELSE /\ conditions' = conds \ {c}
                 /\ loop_pc' = IF conditions' = {} THEN "wait" ELSE "batch"
                 /\ UNCHANGED <<read_loop_task, read_errors>>
                 /\ IF c = "ackcmd"
                    THEN LET st == queue_data(
                                       [running_cmds |-> running_cmds,
                                        cmd_info |-> cmd_info],
                                       sd_list(ack_wire))
                         IN  /\ running_cmds' = st.running_cmds
                             /\ cmd_info' = st.cmd_info
                             /\ ack_wire' = <<>>
                             /\ UNCHANGED data_wire
                             /\ SetTopic(TopicState)
                    ELSE /\ data_wire' = left_by_take(data_wire, QueueLen)
                         /\ SetTopic(topic_queue_data(
                                         TopicState,
                                         Data(take_cond(data_wire, QueueLen))))
                         /\ UNCHANGED <<running_cmds, cmd_info, ack_wire>>

\* _read_loop, "except Exception": the exception is logged; done_task
\* after it (d: before it).
done_after_failure_Resolved(d) == "done"

done_after_failure(d) == d

\* _read_loop, at "wait": from "while self.isopen" (the loop ends if the
\* session is closed) through _wait_next in the executor, which returns
\* the triggered conditions, and "if not self.isopen: return", to the
\* first condition of the batch (c), up to "await asyncio.sleep(0)".
LoopWait(c, fails) ==
    /\ read_loop_task = "running"
    /\ loop_pc = "wait"
    /\ IF ~isopen
       THEN /\ LoopEnds("finished")
            /\ UNCHANGED <<read_errors, running_cmds, cmd_info, ack_wire,
                           data_wire>>
            /\ SetTopic(TopicState)
       ELSE \E conds \in SUBSET Triggered : ReadCondition(c, fails, conds)
    /\ UNCHANGED <<num_put, has_callback, last_op, flushed, pull_issued>>
    /\ done_task' = IF read_loop_task' = "failed"
                    THEN done_after_failure(done_task) ELSE done_task
    /\ UNCHANGED <<start_vars, topic_vars, next_seq, ctrl_stage, num_acks,
                   echo_identity, isopen, guard_triggered, in_domain,
                   close_pc, steps_run>>

\* _read_loop, after "await asyncio.sleep(0)": the next condition of the
\* batch (the session is not looked at again before the batch is done).
\* A batch has more than one condition only where two read topics have
\* data at once.
LoopRead(c, fails) ==
    /\ read_loop_task = "running"
    /\ loop_pc = "batch"
    /\ ReadCondition(c, fails, conditions)
    /\ UNCHANGED <<num_put, has_callback, last_op, flushed, pull_issued>>
    /\ done_task' = IF read_loop_task' = "failed"
                    THEN done_after_failure(done_task) ELSE done_task
    /\ UNCHANGED <<start_vars, topic_vars, next_seq, ctrl_stage, num_acks,
                   echo_identity, isopen, guard_triggered, in_domain,
                   close_pc, steps_run>>

(* ---- the read topic and its consumer ---- *)

\* The parts of the read topic an operation of the consumer may change.
consumer_frame == <<data_wire, num_put, current_data, callback_log, arrived>>

\* The component publishes the next sample; valid: the reader will get
\* it with si.valid_data set.
Put(valid) ==
    /\ num_put < MaxSamples
    /\ num_put' = num_put + 1
    /\ data_wire' = Append(data_wire, Sample(num_put + 1, valid))
    /\ UNCHANGED <<data_queue, current_data, has_callback, callback_log,
                   next_task, pulled, arrived, last_op, flushed, pull_issued>>

\* The value get() returns: the current data, None if there is none.
get_OldestQueued ==
    IF data_queue = <<>>
    THEN Op("get", "None", 0)
    ELSE Op("get", "data", Head(data_queue))

get ==
    IF current_data = 0
    THEN Op("get", "None", 0)
    ELSE Op("get", "data", current_data)

\* ReadTopic.get()
Get ==
    /\ last_op = NoOp
    /\ last_op' = get
    /\ UNCHANGED <<consumer_frame, data_queue, has_callback, next_task,
                   pulled, flushed, pull_issued>>

\* ReadTopic.get_oldest()
GetOldest ==
    /\ last_op = NoOp
    /\ IF has_callback
       THEN /\ last_op' = Op("get_oldest", "RuntimeError", 0)
            /\ UNCHANGED <<data_queue, pulled, pull_issued>>
       ELSE /\ pull_issued' = TRUE
            /\ IF data_queue = <<>>
               THEN /\ last_op' = Op("get_oldest", "None", 0)
                    /\ UNCHANGED <<data_queue, pulled>>
               ELSE /\ last_op' = Op("get_oldest", "data", oldest(data_queue))
                    /\ data_queue' = Tail(data_queue)
                    /\ pulled' = Append(pulled, oldest(data_queue))
    /\ UNCHANGED <<consumer_frame, has_callback, next_task, flushed>>

\* ReadTopic.flush()
Flush ==
    /\ last_op = NoOp
    /\ IF has_callback
       THEN /\ last_op' = Op("flush", "RuntimeError", 0)
            /\ UNCHANGED <<data_queue, flushed, pull_issued>>
       ELSE /\ last_op' = Op("flush", "ok", 0)
            /\ data_queue' = <<>>
            /\ flushed' = (flushed \/ data_queue # <<>>)
            /\ pull_issued' = TRUE
    /\ UNCHANGED <<consumer_frame, has_callback, next_task, pulled>>

\* The name under which next(flush) is recorded.
NextName(flush) == IF flush THEN "next_flush" ELSE "next"

\* ReadTopic.next(flush): flush if asked; return the oldest queued sample,
\* else wait for one.
NextCall(flush) ==
    /\ last_op = NoOp
    /\ IF has_callback
       THEN /\ last_op' = Op(NextName(flush), "RuntimeError", 0)
            /\ UNCHANGED <<data_queue, pulled, next_task, flushed,
                           pull_issued>>
       ELSE LET q == IF flush THEN <<>> ELSE data_queue
            IN  /\ pull_issued' = TRUE
                /\ flushed' = (flushed \/ (flush /\ data_queue # <<>>))
                /\ IF q = <<>>
                   THEN /\ last_op' = Op(NextName(flush), "waiting", 0)
                        /\ next_task' = "pending"
                        /\ data_queue' = q
                        /\ UNCHANGED pulled
                   ELSE /\ last_op' = Op(NextName(flush), "data", oldest(q))
                        /\ data_queue' = Tail(q)
                        /\ pulled' = Append(pulled, oldest(q))
                        /\ UNCHANGED next_task
    /\ UNCHANGED <<consumer_frame, has_callback>>

\* next(): the wait was given a sample and returns it.
NextReturns ==
    /\ last_op.result = "waiting"
    /\ next_task = "none"
    /\ last_op' = Op(last_op.op, "data", Last(pulled))
    /\ UNCHANGED <<consumer_frame, data_queue, has_callback, next_task,
                   pulled, flushed, pull_issued>>

\* next(): the timeout expires before a sample arrives.
NextTimeout ==
    /\ last_op.result = "waiting"
    /\ next_task = "pending"
    /\ next_task' = "none"
    /\ last_op' = Op(last_op.op, "TimeoutError", 0)
    /\ UNCHANGED <<consumer_frame, data_queue, has_callback, pulled,
                   flushed, pull_issued>>

\* May a callback be registered: not once a pull operation was issued.
callback_allowed_Always == TRUE

callback_allowed == ~pull_issued

\* The setter of ReadTopic.callback: register (b) or remove a callback.
SetCallback(b) ==
    /\ last_op = NoOp
    /\ b # has_callback
    /\ IF b /\ ~callback_allowed
       THEN /\ last_op' = Op("set_callback", "InvalidModeError", 0)
            /\ UNCHANGED has_callback
       ELSE /\ last_op' = Op("set_callback", "ok", 0)
            /\ has_callback' = b
    /\ UNCHANGED <<consumer_frame, data_queue, next_task, pulled, flushed,
                   pull_issued>>

\* The consumer has the result of its operation and goes on.
OpDone ==
    /\ last_op # NoOp
    /\ last_op.result # "waiting"
    /\ last_op' = NoOp
    /\ UNCHANGED <<consumer_frame, data_queue, has_callback, next_task,
                   pulled, flushed, pull_issued>>

(* ---- commands ---- *)

\* RemoteCommand.start: write the command with the next sequence number,
\* register its CommandInfo and wait for an acknowledgment (mode "next":
\* wait_done=False, "final": wait_done=True).
IssueCommand(mode) ==
    /\ next_seq <= MaxSeq
    /\ "cmd" \in Range(writers)
    /\ writer_isopen["cmd"]
    /\ next_seq' = next_seq + 1
    /\ running_cmds' = running_cmds \cup {next_seq}
    /\ cmd_info' = [cmd_info EXCEPT ![next_seq] = NewCommandInfo(mode)]
    /\ UNCHANGED <<start_vars, topic_vars, wire_vars, loop_vars, close_vars>>

\* RemoteCommand.next_ack: wait for the next acknowledgment of an
\* outstanding command.
NextAck(s, mode) ==
    /\ s \in running_cmds
    /\ cmd_info[s].waiting = "none"
    /\ cmd_info' = [cmd_info EXCEPT ![s].waiting = mode]
    /\ UNCHANGED <<running_cmds, next_seq, start_vars, topic_vars, wire_vars,
                   loop_vars, close_vars>>

\* An ackcmd sample as the controller writes it.  (Samples written once
\* the session has ended are never taken; they are left out.)
AckCmd(s, a) ==
    [private_seqNum |-> s, ack |-> a,
     identity |-> IF echo_identity THEN Identity ELSE "",
     valid_data |-> TRUE]

\* The controller acknowledges a command it received: ACK.
CtrlAck(s) ==
    /\ s < next_seq
    /\ done_task = "pending"
    /\ num_acks < MaxAcks
    /\ num_acks' = num_acks + 1
    /\ ctrl_stage[s] = 0
    /\ ctrl_stage' = [ctrl_stage EXCEPT ![s] = 1]
    /\ ack_wire' = Append(ack_wire, AckCmd(s, "ACK"))
    /\ UNCHANGED <<echo_identity, start_vars, topic_vars, cmd_vars,
                   loop_vars, close_vars>>

\* The controller reports the command in progress (an awaitable callback).
CtrlInProgress(s) ==
    /\ s < next_seq
    /\ done_task = "pending"
    /\ num_acks < MaxAcks
    /\ num_acks' = num_acks + 1
    /\ ctrl_stage[s] = 1
    /\ ctrl_stage' = [ctrl_stage EXCEPT ![s] = 2]
    /\ ack_wire' = Append(ack_wire, AckCmd(s, "INPROGRESS"))
    /\ UNCHANGED <<echo_identity, start_vars, topic_vars, cmd_vars,
                   loop_vars, close_vars>>

\* The controller reports the end of the command: a = COMPLETE or FAILED.
CtrlFinal(s, a) ==
    /\ s < next_seq
    /\ done_task = "pending"
    /\ num_acks < MaxAcks
    /\ num_acks' = num_acks + 1
    /\ ctrl_stage[s] \in {1, 2}
    /\ ctrl_stage' = [ctrl_stage EXCEPT ![s] = 3]
    /\ ack_wire' = Append(ack_wire, AckCmd(s, a))
    /\ UNCHANGED <<echo_identity, start_vars, topic_vars, cmd_vars,
                   loop_vars, close_vars>>

\* AckTimeoutError.ackcmd: "the last ackcmd seen.  If no command
\* acknowledgement was received then the ack code will be CMD_NOACK."
AckTimeoutError(info) ==
    IF info.ackcmd = "none" THEN "NOACK" ELSE info.ackcmd

\* The timeout of a wait expires: the wait ends with an AckTimeoutError.
\* Nothing is written to the controller and the command stays in the
\* table of running commands.
Timeout(s) ==
    /\ s \in running_cmds
    /\ cmd_info[s].waiting # "none"
    /\ cmd_info' = [cmd_info EXCEPT
                        ![s].waiting = "none",
                        ![s].timeout_ack = AckTimeoutError(cmd_info[s])]
    /\ UNCHANGED <<running_cmds, next_seq, start_vars, topic_vars, wire_vars,
                   loop_vars, close_vars>>

(* ---- close ---- *)

\* close(): "if not self.isopen: await self.done_task; return"
CloseWaitsForDone_ReturnsAtOnce(p) == "returned"

CloseWaitsForDone(p) == "await_done"

\* close() is called: a closed or closing session only waits for
\* done_task; else isopen = False, trigger the guard condition and sleep.
CloseCall(p) ==
    /\ close_pc[p] = "idle"
    /\ IF ~isopen
       THEN /\ close_pc' = [close_pc EXCEPT ![p] = CloseWaitsForDone(p)]
            /\ UNCHANGED <<isopen, guard_triggered, steps_run>>
       ELSE /\ isopen' = FALSE
            /\ guard_triggered' = TRUE
            /\ steps_run' = [steps_run EXCEPT !.trigger = @ + 1]
            /\ close_pc' = [close_pc EXCEPT ![p] = "sleep"]
    /\ UNCHANGED <<done_task, in_domain, start_vars, topic_vars, cmd_vars,
                   wire_vars, loop_vars>>

\* close(): "await self.done_task" returns once done_task is done.
CloseAwaitDone(p) ==
    /\ close_pc[p] = "await_done"
    /\ done_task = "done"
    /\ close_pc' = [close_pc EXCEPT ![p] = "returned"]
    /\ UNCHANGED <<isopen, done_task, guard_triggered, in_domain, steps_run,
                   start_vars, topic_vars, cmd_vars, wire_vars, loop_vars>>

\* close(): the CommandInfo table after "while self._running_cmds".
close_cmd_info_NoAbort == cmd_info

close_cmd_info ==
    [s \in Seqs |-> IF s \in running_cmds
                    THEN abort(cmd_info[s], "shutting down")
                    ELSE cmd_info[s]]

\* close(): self.domain.remove_salinfo(self): is the session in the
\* domain's set of sessions afterwards.
remove_salinfo_Forgotten == in_domain

remove_salinfo == FALSE

\* close(), from "while self._readers" on, up to the next await: close
\* the next reader, else the next writer, else abort the running commands,
\* leave the domain and set done_task.  sr: steps_run so far.
CloseDrain(p, sr) ==
    IF readers # <<>>
    THEN /\ readers' = Front(readers)
         /\ reader_isopen' = [reader_isopen EXCEPT ![Last(readers)] = FALSE]
         /\ close_pc' = [close_pc EXCEPT ![p] = "reader_close"]
         /\ steps_run' = [sr EXCEPT !.close_topic = @ + 1]
         /\ UNCHANGED <<writers, writer_isopen, running_cmds, cmd_info,
                        in_domain, done_task>>
    ELSE IF writers # <<>>
    THEN /\ writers' = Front(writers)
         /\ writer_isopen' = [writer_isopen EXCEPT ![Last(writers)] = FALSE]
         /\ close_pc' = [close_pc EXCEPT ![p] = "writer_close"]
         /\ steps_run' = [sr EXCEPT !.close_topic = @ + 1]
         /\ UNCHANGED <<readers, reader_isopen, running_cmds, cmd_info,
                        in_domain, done_task>>
    ELSE /\ running_cmds' = {}
         /\ cmd_info' = close_cmd_info
         /\ in_domain' = remove_salinfo
         /\ done_task' = "done"
         /\ steps_run' =
                [sr EXCEPT
                     !.abort = @ + 1,
                     !.remove = @ + 1,
                     !.set_done = IF done_task = "done" THEN @ ELSE @ + 1]
         /\ close_pc' = [close_pc EXCEPT ![p] = "returned"]
         /\ UNCHANGED <<readers, reader_isopen, writers, writer_isopen>>

\* close(), after the sleep: cancel the read loop and go on.
CloseAfterSleep(p) ==
    /\ close_pc[p] = "sleep"
    /\ IF read_loop_task = "running"
       THEN LoopEnds("cancelled") /\ UNCHANGED read_errors
       ELSE UNCHANGED loop_vars
    /\ CloseDrain(p, [steps_run EXCEPT !.cancel = @ + 1])
    /\ UNCHANGED <<isopen, guard_triggered, next_seq, start_vars, wire_vars>>

\* close(), after "await reader.close()" or "await writer.close()".
CloseResume(p) ==
    /\ close_pc[p] \in {"reader_close", "writer_close"}
    /\ CloseDrain(p, steps_run)
    /\ UNCHANGED <<isopen, guard_triggered, next_seq, start_vars, wire_vars,
                   loop_vars>>

NextSal ==
    \/ StartCall /\ UNCHANGED all_but_sal
    \/ WaitHistory(TRUE) /\ UNCHANGED all_but_sal
    \/ \E nerr \in {0, 2} : StartResume(nerr) /\ UNCHANGED all_but_sal_top
    \/ \E c \in ReaderNames, fails \in BOOLEAN :
           LoopWait(c, fails) /\ UNCHANGED all_but_sal_top
    \/ \E mode \in {"next", "final"} : IssueCommand(mode) /\ UNCHANGED all_but_sal
    \/ \E s \in Seqs, mode \in {"next", "final"} :
           NextAck(s, mode) /\ UNCHANGED all_but_sal
    \/ \E s \in Seqs : CtrlAck(s) /\ UNCHANGED all_but_sal
    \/ \E s \in Seqs : CtrlInProgress(s) /\ UNCHANGED all_but_sal
    \/ \E s \in Seqs, a \in {"COMPLETE", "FAILED"} :
           CtrlFinal(s, a) /\ UNCHANGED all_but_sal
    \/ \E p \in Closers : CloseCall(p) /\ UNCHANGED all_but_sal
    \/ \E p \in Closers : CloseAwaitDone(p) /\ UNCHANGED all_but_sal
    \/ \E p \in Closers : CloseAfterSleep(p) /\ UNCHANGED all_but_sal
    \/ \E p \in Closers : CloseResume(p) /\ UNCHANGED all_but_sal

(***************************************************************************)
(* ControllerCommand: the callback of one command                          *)
(***************************************************************************)
Invs == 1..MaxInv

\* TestCsc.__init__: self.cmd_wait.allow_multiple_callbacks = True
InitCtl ==
    /\ allow_multiple_callbacks = TRUE
    /\ cmd_queue = <<>>
    /\ callback_busy = 0
    /\ handler = [i \in Invs |-> "none"]
    /\ handler_ack = [i \in Invs |-> "none"]
    /\ events = <<>>
    /\ next_inv = 1

\* The setter of allow_multiple_callbacks, used while no command is
\* queued or running.
SetAllowMultiple(b) ==
    /\ b # allow_multiple_callbacks
    /\ cmd_queue = <<>>
    /\ \A i \in Invs : handler[i] # "running"
    /\ allow_multiple_callbacks' = b
    /\ UNCHANGED <<cmd_queue, callback_busy, handler, handler_ack, events,
                   next_inv>>

\* A command sample is read and queued for the callback.
Arrive ==
    /\ next_inv <= MaxInv
    /\ next_inv' = next_inv + 1
    /\ cmd_queue' = Append(cmd_queue, next_inv)
    /\ handler' = [handler EXCEPT ![next_inv] = "queued"]
    /\ UNCHANGED <<allow_multiple_callbacks, callback_busy, handler_ack,
                   events>>

\* Does the callback loop wait for the callback to finish before it takes
\* the next command.
callback_awaited_Never == FALSE

callback_awaited == ~allow_multiple_callbacks

\* The callback loop takes the oldest queued command and starts the
\* callback (do_wait, a coroutine) on it.
StartCallback ==
    /\ cmd_queue # <<>>
    /\ callback_busy = 0
    /\ LET i == Head(cmd_queue)
       IN  /\ cmd_queue' = Tail(cmd_queue)
           /\ handler' = [handler EXCEPT ![i] = "running"]
           /\ events' = Append(events, <<"start", i, callback_awaited>>)
           /\ callback_busy' = IF callback_awaited THEN i ELSE 0
    /\ UNCHANGED <<allow_multiple_callbacks, handler_ack, next_inv>>

\* do_wait returns after its sleep: the command is acknowledged.
do_wait(i) ==
    /\ handler[i] = "running"
    /\ handler' = [handler EXCEPT ![i] = "done"]
    /\ handler_ack' = [handler_ack EXCEPT ![i] = AckForOutcome("ok")]
    /\ events' = Append(events, <<"end", i, FALSE>>)
    /\ callback_busy' = IF callback_busy = i THEN 0 ELSE callback_busy
    /\ UNCHANGED <<allow_multiple_callbacks, cmd_queue, next_inv>>

NextCtl ==
    \/ \E b \in BOOLEAN : SetAllowMultiple(b) /\ UNCHANGED all_but_ctl
    \/ Arrive /\ UNCHANGED all_but_ctl
    \/ StartCallback /\ UNCHANGED all_but_ctl
    \/ \E i \in Invs : do_wait(i) /\ UNCHANGED all_but_ctl

\* all but the session's start and read loop and the read topic
all_but_top == <<csc_vars, ctl_vars, life_vars, ext_vars, cmd_vars, wire_vars,
                 topic_vars, start_vars, loop_vars, close_vars>>

\* The session from start on, with one read topic and its consumer.
NextTopic ==
    \/ StartCall /\ UNCHANGED all_but_sal
    \/ WaitHistory(TRUE) /\ UNCHANGED all_but_sal
    \/ \E nerr \in {0, 2} : StartResume(nerr) /\ UNCHANGED all_but_sal_top
    \/ \E c \in ReaderNames, fails \in BOOLEAN :
           LoopWait(c, fails) /\ UNCHANGED all_but_sal_top
    \/ Put(TRUE) /\ UNCHANGED all_but_top
    \/ Get /\ UNCHANGED all_but_top
    \/ GetOldest /\ UNCHANGED all_but_top
    \/ Flush /\ UNCHANGED all_but_top
    \/ \E flush \in BOOLEAN : NextCall(flush) /\ UNCHANGED all_but_top
    \/ NextReturns /\ UNCHANGED all_but_top
    \/ NextTimeout /\ UNCHANGED all_but_top
    \/ \E b \in BOOLEAN : SetCallback(b) /\ UNCHANGED all_but_top
    \/ OpDone /\ UNCHANGED all_but_top

\* The session while it is open, with waits that can time out.
NextWait ==
    \/ StartCall /\ UNCHANGED all_but_sal
    \/ WaitHistory(TRUE) /\ UNCHANGED all_but_sal
    \/ \E nerr \in {0, 2} : StartResume(nerr) /\ UNCHANGED all_but_sal_top
    \/ \E c \in ReaderNames, fails \in BOOLEAN :
           LoopWait(c, fails) /\ UNCHANGED all_but_sal_top
    \/ \E mode \in {"next", "final"} : IssueCommand(mode) /\ UNCHANGED all_but_sal
    \/ \E s \in Seqs, mode \in {"next", "final"} :
           NextAck(s, mode) /\ UNCHANGED all_but_sal
    \/ \E s \in Seqs : CtrlAck(s) /\ UNCHANGED all_but_sal
    \/ \E s \in Seqs : CtrlInProgress(s) /\ UNCHANGED all_but_sal
    \/ \E s \in Seqs, a \in {"COMPLETE", "FAILED"} :
           CtrlFinal(s, a) /\ UNCHANGED all_but_sal
    \/ \E s \in Seqs : Timeout(s) /\ UNCHANGED all_but_sal

(***************************************************************************)
(* Registration of read topics; start called again; Controller.start       *)
(***************************************************************************)
\* The n-th call: the method, its argument or caller, and how it ended.
Call(o, a, r, n) == [op |-> o, arg |-> a, result |-> r, n |-> n]

\* SalInfo.__init__: the guard condition is attached to the wait-set;
\* Controller.__init__: the topics are made (each adds itself to the
\* SalInfo) and start() is scheduled as a task.
InitLife ==
    /\ waitset = {"guard", "ackcmd", "summaryState"}
    /\ last_call = Call("none", "none", "none", 0)
    /\ controller_start_called = FALSE
    /\ controller_start_task = "pending"
    /\ task_scheduled = TRUE
    /\ controller_pc = "none"
    /\ controller_runner = "none"

controller_vars == <<controller_start_called, controller_start_task,
                     task_scheduled, controller_pc, controller_runner>>

\* add_reader: the error it raises for this topic, "none" if it adds it.
add_reader_error_NoStartCheck(topic) ==
    IF topic \in Range(readers) THEN "RuntimeError" ELSE "none"

add_reader_error(topic) ==
    IF start_called
    THEN "RuntimeError"
    ELSE IF topic \in Range(readers) THEN "RuntimeError" ELSE "none"

\* SalInfo.add_reader
AddReader(topic) ==
    /\ last_call.n < MaxCalls
    /\ IF add_reader_error(topic) # "none"
       THEN /\ last_call' = Call("add_reader", topic,
                                 add_reader_error(topic), last_call.n + 1)
            /\ UNCHANGED <<readers, waitset>>
       ELSE /\ last_call' = Call("add_reader", topic, "ok", last_call.n + 1)
            /\ readers' = Append(readers, topic)
            /\ waitset' = waitset \cup {topic}
    /\ UNCHANGED <<reader_isopen, writers, writer_isopen, cmd_vars,
                   wire_vars, start_vars, loop_vars, close_vars,
                   controller_vars>>

\* SalInfo.start, called when start has been called: it raises at once.
StartAgain ==
    /\ last_call.n < MaxCalls
    /\ start_called
    /\ last_call' = Call("start", "user", "RuntimeError", last_call.n + 1)
    /\ UNCHANGED <<sal_vars, waitset, controller_vars>>

\* Controller.start, up to "await asyncio.sleep(0)"; the caller is the task
\* the constructor scheduled, or a user that calls start().
ControllerStart(caller) ==
    /\ caller = "task" => task_scheduled
    /\ caller = "user" => last_call.n < MaxCalls
    /\ task_scheduled' = IF caller = "task" THEN FALSE ELSE task_scheduled
    /\ IF controller_start_called
       THEN /\ last_call' = Call("Controller.start", caller, "RuntimeError",
                                 last_call.n + 1)
            /\ controller_start_task' =
                   IF caller = "task" THEN "exception"
                   ELSE controller_start_task
            /\ UNCHANGED <<controller_start_called, controller_pc,
                           controller_runner>>
       ELSE /\ last_call' = Call("Controller.start", caller, "running",
                                 last_call.n + 1)
            /\ controller_start_called' = TRUE
            /\ controller_pc' = "sleep"
            /\ controller_runner' = caller
            /\ UNCHANGED controller_start_task
    /\ UNCHANGED <<sal_vars, waitset>>

\* The task of the constructor ends with this exception, if it is the
\* caller that runs.
TaskRaises ==
    controller_start_task' =
        IF controller_runner = "task" THEN "exception"
        ELSE controller_start_task

\* Controller.start, after the sleep: gather the start_task of its SalInfo
\* if that was started already (by a direct call), then call
\* self.salinfo.start().
ControllerStartSalinfo ==
    /\ controller_pc = "sleep"
    /\ IF start_called
       THEN /\ start_task # "pending"
            /\ controller_pc' = "raised"
            /\ TaskRaises
            /\ last_call' =
                   IF start_task = "exception" THEN last_call
                   ELSE Call("start", "controller", "RuntimeError",
                             last_call.n + 1)
            /\ UNCHANGED sal_vars
       ELSE /\ StartCall
            /\ controller_pc' = "salinfo"
            /\ UNCHANGED <<controller_start_task, last_call>>
    /\ UNCHANGED <<waitset, controller_start_called, task_scheduled,
                   controller_runner>>

\* Controller.start: self.salinfo.start() returns or raises;
\* put_log_level().
ControllerStartDone ==
    /\ controller_pc = "salinfo"
    /\ start_pc \in {"returned", "raised"}
    /\ controller_pc' = start_pc
    /\ controller_start_task' =
           IF controller_runner # "task" THEN controller_start_task
           ELSE IF start_pc = "returned" THEN "done" ELSE "exception"
    /\ UNCHANGED <<sal_vars, waitset, last_call, controller_start_called,
                   task_scheduled, controller_runner>>

all_but_sal_life == <<csc_vars, ctl_vars, top_vars, ext_vars>>

\* A session and its Controller from construction on: registration, start
\* (directly or by the Controller), the read loop.
NextStart ==
    \/ \E topic \in TopicNames : AddReader(topic) /\ UNCHANGED all_but_sal_life
    \/ StartCall /\ UNCHANGED all_but_sal
    \/ StartAgain /\ UNCHANGED all_but_sal_life
    \/ WaitHistory(TRUE) /\ UNCHANGED all_but_sal
    \/ \E nerr \in {0, 2} : StartResume(nerr) /\ UNCHANGED all_but_sal_top
    \/ \E c \in ReaderNames, fails \in BOOLEAN :
           LoopWait(c, fails) /\ UNCHANGED all_but_sal_top
    \/ Put(TRUE) /\ UNCHANGED all_but_top
    \/ \E caller \in {"task", "user"} :
           ControllerStart(caller) /\ UNCHANGED all_but_sal_life
    \/ ControllerStartSalinfo /\ UNCHANGED all_but_sal_life
    \/ ControllerStartDone /\ UNCHANGED all_but_sal_life

(***************************************************************************)
(* Controller.close                                                        *)
(***************************************************************************)
ControllerClosers == {"a", "b", "c"}

\* What a caller may pass as the exception argument ("none": None).
Exceptions == {"none", "ValueError", "OSError"}

InitClose ==
    /\ controller_isopen = TRUE
    /\ controller_done_task = "pending"
    /\ controller_close_pc = [p \in ControllerClosers |-> "idle"]
    /\ close_exception = [p \in ControllerClosers |-> "none"]
    /\ first_closer = "none"
    /\ close_steps = [close_tasks |-> 0, sleep |-> 0, remove_handler |-> 0,
                      domain_close |-> 0, set_done |-> 0]
    /\ close_tasks_raised = FALSE

\* Controller.close is called: a closed or closing Controller only waits
\* for done_task; else isopen = False and close_tasks is awaited.
ControllerCloseCall(p, exception) ==
    /\ controller_close_pc[p] = "idle"
    /\ close_exception' = [close_exception EXCEPT ![p] = exception]
    /\ IF ~controller_isopen
       THEN /\ controller_close_pc' =
                   [controller_close_pc EXCEPT ![p] = "await_done"]
            /\ UNCHANGED <<controller_isopen, first_closer, close_steps>>
       ELSE /\ controller_isopen' = FALSE
            /\ first_closer' = p
            /\ close_steps' = [close_steps EXCEPT !.close_tasks = @ + 1]
            /\ controller_close_pc' =
                   [controller_close_pc EXCEPT ![p] = "close_tasks"]
    /\ UNCHANGED <<controller_done_task, close_tasks_raised>>

\* Controller.close: "await self.done_task" ends once done_task is done;
\* an exception it holds is caught and ignored.
ControllerCloseAwaitDone(p) ==
    /\ controller_close_pc[p] = "await_done"
    /\ controller_done_task # "pending"
    /\ controller_close_pc' = [controller_close_pc EXCEPT ![p] = "returned"]
    /\ UNCHANGED <<controller_isopen, controller_done_task, close_exception,
                   first_closer, close_steps, close_tasks_raised>>

\* Controller.close: where close() goes on after close_tasks: its
\* exception is caught and logged.
after_close_tasks_Propagates(raises) == IF raises THEN "raised" ELSE "sleep"

after_close_tasks(raises) == "sleep"

\* Controller.close: close_tasks returns, or raises and is logged; then
\* the sleep of SHUTDOWN_DELAY.
ControllerCloseTasks(p, raises) ==
    /\ controller_close_pc[p] = "close_tasks"
    /\ close_tasks_raised' = raises
    /\ controller_close_pc' =
           [controller_close_pc EXCEPT ![p] = after_close_tasks(raises)]
    /\ close_steps' =
           IF after_close_tasks(raises) = "sleep"
           THEN [close_steps EXCEPT !.sleep = @ + 1]
           ELSE close_steps
    /\ UNCHANGED <<controller_isopen, controller_done_task, close_exception,
                   first_closer>>

\* Controller.close, after the sleep: remove the log handler and await
\* domain.close().
ControllerCloseAfterSleep(p) ==
    /\ controller_close_pc[p] = "sleep"
    /\ close_steps' = [close_steps EXCEPT !.remove_handler = @ + 1,
                                          !.domain_close = @ + 1]
    /\ controller_close_pc' =
           [controller_close_pc EXCEPT ![p] = "domain_close"]
    /\ UNCHANGED <<controller_isopen, controller_done_task, close_exception,
                   first_closer, close_tasks_raised>>

\* Controller.close: what the finally clause sets done_task to.
done_task_outcome_IgnoresException(exception) == "None"

done_task_outcome(exception) ==
    IF exception # "none" THEN exception ELSE "None"

\* Controller.close: domain.close() returns or raises; the finally clause
\* sets done_task if it is not done.
ControllerCloseFinally(p, fails) ==
    /\ controller_close_pc[p] = "domain_close"
    /\ IF controller_done_task = "pending"
       THEN /\ controller_done_task' = done_task_outcome(close_exception[p])
            /\ close_steps' = [close_steps EXCEPT !.set_done = @ + 1]
       ELSE UNCHANGED <<controller_done_task, close_steps>>
    /\ controller_close_pc' =
           [controller_close_pc EXCEPT
                ![p] = IF fails THEN "raised" ELSE "returned"]
    /\ UNCHANGED <<controller_isopen, close_exception, first_closer,
                   close_tasks_raised>>

NextClose ==
    \/ \E p \in ControllerClosers, exception \in Exceptions :
           ControllerCloseCall(p, exception) /\ UNCHANGED all_but_cclose
    \/ \E p \in ControllerClosers :
           ControllerCloseAwaitDone(p) /\ UNCHANGED all_but_cclose
    \/ \E p \in ControllerClosers, raises \in BOOLEAN :
           ControllerCloseTasks(p, raises) /\ UNCHANGED all_but_cclose
    \/ \E p \in ControllerClosers :
           ControllerCloseAfterSleep(p) /\ UNCHANGED all_but_cclose
    \/ \E p \in ControllerClosers, fails \in BOOLEAN :
           ControllerCloseFinally(p, fails) /\ UNCHANGED all_but_cclose

(***************************************************************************)
(* Controller.__init__: the do_<name> methods and the callbacks            *)
(***************************************************************************)
\* The commands a component may have, and the names a do_ method may have.
CommandNames == {"start", "setLogLevel", "abort", "setValue"}

DoNames == CommandNames \cup {"extra_command"}

\* _assert_do_methods_present: the commands that need a do_ method and
\* have none.
unsupported_commands_OptionalToo(names, supported) == names \ supported

unsupported_commands(names, supported) ==
    (names \ supported) \ OPTIONAL_COMMAND_NAMES

\* _assert_do_methods_present: the do_ methods that name no command.
extra_commands(names, supported) == supported \ names

\* _assert_do_methods_present: "ok" or the exception raised.
assert_do_methods_present(names, supported) ==
    IF names = supported
    THEN "ok"
    ELSE IF unsupported_commands(names, supported) = {}
            /\ extra_commands(names, supported) = {}
         THEN "ok"
         ELSE "TypeError"

\* Controller.__init__, the loop over the commands: the exception it
\* raises for a command, "none" if it raises none.
callback_error(name, supported) ==
    IF name \notin supported /\ name \notin OPTIONAL_COMMAND_NAMES
    THEN "RuntimeError" ELSE "none"

\* Controller.__init__, the loop over the commands: the callback set.
callback_set(name, supported) ==
    IF name \in supported THEN "do" ELSE "reject_command"

InitCtor ==
    /\ command_names = {}
    /\ do_names = {}
    /\ do_callbacks = FALSE
    /\ constructed = "none"
    /\ callback = [name \in CommandNames |-> "none"]

\* Controller.__init__ for a component with the commands names, by a class
\* with a do_ method for each name of supported.
Construct(names, supported, flag) ==
    /\ constructed = "none"
    /\ command_names' = names
    /\ do_names' = supported
    /\ do_callbacks' = flag
    /\ IF ~flag
       THEN /\ constructed' = "ok"
            /\ UNCHANGED callback
       ELSE IF assert_do_methods_present(names, supported) # "ok"
       THEN /\ constructed' = assert_do_methods_present(names, supported)
            /\ UNCHANGED callback
       ELSE IF \E name \in names : callback_error(name, supported) # "none"
       THEN /\ constructed' = "RuntimeError"
            /\ UNCHANGED callback
       ELSE /\ constructed' = "ok"
            /\ callback' = [name \in CommandNames |->
                                IF name \in names
                                THEN callback_set(name, supported)
                                ELSE "none"]

NextCtor ==
    \E names \in SUBSET CommandNames, supported \in SUBSET DoNames,
       flag \in BOOLEAN :
        Construct(names, supported, flag) /\ UNCHANGED all_but_ctor

(***************************************************************************)
(* LogMixin: the queue of log records and the loop that publishes them     *)
(***************************************************************************)
\* LogMixin.__init__: an unbounded queue, the loop is scheduled as a task,
\* logging is enabled.
InitLog ==
    /\ log_queue = <<>>
    /\ num_logged = 0
    /\ log_published = <<>>
    /\ enable_logging = TRUE
    /\ log_pc = "top"
    /\ num_sleeps = 0
    /\ stop_pc = "none"
    /\ pending_at_stop = 0
    /\ sent_after_stop = 0

\* A call of self.log: the QueueHandler puts the record on the queue
\* (put_nowait on a queue without a maximum size) and returns.
Log ==
    /\ num_logged < MaxLogs
    /\ num_logged' = num_logged + 1
    /\ log_queue' = Append(log_queue, num_logged + 1)
    /\ UNCHANGED <<log_published, enable_logging, log_pc, num_sleeps,
                   stop_pc, pending_at_stop, sent_after_stop>>

\* _log_messages_loop: where the loop is after it has put a record.
after_put_NoSleep == "top"

after_put == "sleep"

\* _log_messages_loop, from "while self._enable_logging" to the next await:
\* the loop ends if logging is disabled; else it takes the oldest record,
\* if there is one, puts it on logMessage and sleeps (fails: making or
\* putting the data raises; the exception is dropped and, with it, the
\* record and the sleep).
LogLoop(fails) ==
    /\ log_pc = "top"
    /\ IF ~enable_logging
       THEN /\ log_pc' = "done"
            /\ UNCHANGED <<log_queue, log_published, sent_after_stop>>
       ELSE IF log_queue = <<>>
       THEN /\ log_pc' = "sleep"
            /\ UNCHANGED <<log_queue, log_published, sent_after_stop>>
       ELSE /\ log_queue' = Tail(log_queue)
            /\ IF fails
               THEN /\ log_pc' = "top"
                    /\ UNCHANGED <<log_published, sent_after_stop>>
               ELSE /\ log_pc' = after_put
                    /\ log_published' =
                           Append(log_published,
                                  [record |-> Head(log_queue),
                                   interval |-> num_sleeps])
                    /\ sent_after_stop' =
                           IF stop_pc = "none" THEN sent_after_stop
                           ELSE sent_after_stop + 1
    /\ UNCHANGED <<num_logged, enable_logging, num_sleeps, stop_pc,
                   pending_at_stop>>

\* _log_messages_loop: the sleep of LOG_MESSAGES_INTERVAL ends.
LogSleepDone ==
    /\ log_pc = "sleep"
    /\ num_sleeps < MaxIntervals
    /\ log_pc' = "top"
    /\ num_sleeps' = num_sleeps + 1
    /\ UNCHANGED <<log_queue, num_logged, log_published, enable_logging,
                   stop_pc, pending_at_stop, sent_after_stop>>

\* stop_logging, to "await asyncio.wait_for(self._log_messages_task, ...)".
StopLogging ==
    /\ stop_pc = "none"
    /\ enable_logging' = FALSE
    /\ pending_at_stop' = Len(log_queue)
    /\ stop_pc' = IF log_pc = "done" THEN "returned" ELSE "waiting"
    /\ UNCHANGED <<log_queue, num_logged, log_published, log_pc, num_sleeps,
                   sent_after_stop>>

\* stop_logging: the loop task is done and wait_for returns.
StopReturns ==
    /\ stop_pc = "waiting"
    /\ log_pc = "done"
    /\ stop_pc' = "returned"
    /\ UNCHANGED <<log_queue, num_logged, log_published, enable_logging,
                   log_pc, num_sleeps, pending_at_stop, sent_after_stop>>

\* stop_logging: the time limit of wait_for passes first: the loop task is
\* cancelled in its sleep (it breaks out of the loop) and wait_for raises
\* TimeoutError.
StopTimeout ==
    /\ stop_pc = "waiting"
    /\ log_pc = "sleep"
    /\ log_pc' = "done"
    /\ stop_pc' = "raised"
    /\ UNCHANGED <<log_queue, num_logged, log_published, enable_logging,
                   num_sleeps, pending_at_stop, sent_after_stop>>

NextLog ==
    \/ Log /\ UNCHANGED all_but_log
    \/ \E fails \in BOOLEAN : LogLoop(fails) /\ UNCHANGED all_but_log
    \/ LogSleepDone /\ UNCHANGED all_but_log
    \/ StopLogging /\ UNCHANGED all_but_log
    \/ StopReturns /\ UNCHANGED all_but_log
    \/ StopTimeout /\ UNCHANGED all_but_log

(***************************************************************************)
(* index_generator and the sequence numbers of commands                    *)
(***************************************************************************)
Indices == 0..MaxIndex

\* The command topics of one session.
CommandTopics == {"cmd_setScalars", "cmd_wait"}

\* index_generator: the argument checks: "ok" or the exception raised.
index_generator_check(imin, imax, i0) ==
    IF imax <= imin THEN "ValueError"
    ELSE IF ~(imin <= i0 /\ i0 <= imax) THEN "ValueError"
    ELSE "ok"

\* index_impl: the value of index after one pass of the loop, which is the
\* value yielded.
index_impl_Saturates(index, imin, imax) ==
    IF index + 1 > imax THEN imax ELSE index + 1

index_impl(index, imin, imax) ==
    IF index + 1 > imax THEN imin ELSE index + 1

InitSeq ==
    /\ gen_state = "none"
    /\ gen_imin = 0
    /\ gen_imax = 0
    /\ gen_index = 0
    /\ cmd_seqs = <<>>

\* index_generator(imin, imax, i0); i0 = -1 stands for None.
MakeGenerator(imin, imax, i0) ==
    /\ gen_state = "none"
    /\ LET first == IF i0 = -1 THEN imin ELSE i0
       IN  IF index_generator_check(imin, imax, first) # "ok"
           THEN /\ gen_state' = index_generator_check(imin, imax, first)
                /\ UNCHANGED <<gen_imin, gen_imax, gen_index>>
           ELSE /\ gen_state' = "made"
                /\ gen_imin' = imin
                /\ gen_imax' = imax
                /\ gen_index' = first - 1
    /\ UNCHANGED cmd_seqs

\* A command is issued on a command topic: its private_seqNum is the next
\* value of the generator of the session.
TakeSeq(topic) ==
    /\ gen_state = "made"
    /\ Len(cmd_seqs) < MaxIssued
    /\ gen_index' = index_impl(gen_index, gen_imin, gen_imax)
    /\ cmd_seqs' = Append(cmd_seqs, [topic |-> topic, seq |-> gen_index'])
    /\ UNCHANGED <<gen_state, gen_imin, gen_imax>>

NextSeq ==
    \/ \E imin \in Indices, imax \in Indices, i0 \in Indices \cup {-1} :
           MakeGenerator(imin, imax, i0) /\ UNCHANGED all_but_seq
    \/ \E topic \in CommandTopics : TakeSeq(topic) /\ UNCHANGED all_but_seq

(***************************************************************************)
(* Acknowledgments of the commands of another Remote                       *)
(***************************************************************************)
\* domain.identity of another Remote
OtherIdentity == "other"

InitInbound == other_acks = <<>>

\* The controller acknowledges a command of another Remote, and the sample
\* passes the query of this session's ackcmd reader: it carries the other
\* Remote's identity if the controller echoes identity, else none.
OtherAck(s, a) ==
    /\ Len(other_acks) < MaxOther
    /\ done_task = "pending"
    /\ LET data == [private_seqNum |-> s, ack |-> a,
                    identity |-> IF echo_identity THEN OtherIdentity ELSE "",
                    valid_data |-> TRUE]
       IN  /\ ack_wire' = Append(ack_wire, data)
           /\ other_acks' = Append(other_acks, data)
    /\ UNCHANGED <<ctrl_stage, num_acks, echo_identity, start_vars,
                   topic_vars, cmd_vars, loop_vars, close_vars>>

\* The commanded component is one that does not yet echo identity in its
\* ackcmd topic ("once all CSCs echo identity"): its samples carry none.
LegacyController ==
    /\ echo_identity
    /\ num_acks = 0
    /\ ack_wire = <<>>
    /\ other_acks = <<>>
    /\ echo_identity' = FALSE
    /\ UNCHANGED <<ack_wire, ctrl_stage, num_acks, other_acks, start_vars,
                   topic_vars, cmd_vars, loop_vars, close_vars>>

\* The open session with its own acknowledgments and those of another
\* Remote's commands.
NextInbound ==
    \/ LegacyController /\ UNCHANGED all_but_sal_inb
    \/ StartCall /\ UNCHANGED all_but_sal
    \/ WaitHistory(TRUE) /\ UNCHANGED all_but_sal
    \/ \E nerr \in {0, 2} : StartResume(nerr) /\ UNCHANGED all_but_sal_top
    \/ \E c \in ReaderNames, fails \in BOOLEAN :
           LoopWait(c, fails) /\ UNCHANGED all_but_sal_top
    \/ IssueCommand("final") /\ UNCHANGED all_but_sal
    \/ \E s \in Seqs : CtrlAck(s) /\ UNCHANGED all_but_sal
    \/ \E s \in Seqs : CtrlFinal(s, "COMPLETE") /\ UNCHANGED all_but_sal
    \/ \E s \in Seqs : OtherAck(s, "COMPLETE") /\ UNCHANGED all_but_sal_inb

(***************************************************************************)
(* Historical data, invalid samples and read errors                        *)
(***************************************************************************)
\* Remote.__init__: evt_max_history=1
InitReader == max_history = 1

\* The event reader is made with max_history = n and added to the
\* session, which has not been started.
MakeReader(n) ==
    /\ ~start_called
    /\ isopen
    /\ num_put = 0
    /\ n # max_history
    /\ max_history' = n

\* ReadTopic.close of one reader: the reader is closed and stays in the
\* session's table of readers.
CloseReader(r) ==
    /\ isopen
    /\ r \in Range(readers)
    /\ reader_isopen[r]
    /\ reader_isopen' = [reader_isopen EXCEPT ![r] = FALSE]
    /\ UNCHANGED <<readers, writers, writer_isopen, start_vars, cmd_vars,
                   wire_vars, loop_vars, close_vars>>

\* The session from its construction to its end, with a component that
\* publishes valid and invalid samples, acknowledgments on the ackcmd
\* topic, a transport whose reads may raise, and readers closed early;
\* close() is called once.
NextReplay ==
    \/ \E n \in 0..MaxHistory : MakeReader(n) /\ UNCHANGED all_but_rt
    \/ \E valid \in BOOLEAN : Put(valid) /\ UNCHANGED all_but_top
    \/ OtherAck(1, "COMPLETE") /\ UNCHANGED all_but_sal_inb
    \/ CloseReader("summaryState") /\ UNCHANGED all_but_sal
    \/ StartCall /\ UNCHANGED all_but_sal
    \/ \E got \in BOOLEAN : WaitHistory(got) /\ UNCHANGED all_but_sal
    \/ \E nerr \in 0..2 : StartResume(nerr) /\ UNCHANGED all_but_sal_top
    \/ \E c \in ReaderNames, fails \in BOOLEAN :
           LoopWait(c, fails) /\ UNCHANGED all_but_sal_top
    \/ \E c \in ReaderNames, fails \in BOOLEAN :
           LoopRead(c, fails) /\ UNCHANGED all_but_sal_top
    \/ CloseCall("a") /\ UNCHANGED all_but_sal
    \/ CloseAfterSleep("a") /\ UNCHANGED all_but_sal
    \/ CloseResume("a") /\ UNCHANGED all_but_sal

InitExt ==
    InitClose /\ InitCtor /\ InitLog /\ InitSeq /\ InitInbound /\ InitReader

Init == InitCsc /\ InitSal /\ InitCtl /\ InitTop /\ InitLife /\ InitExt

SpecCsc == Init /\ [][NextCsc]_vars

Spec == Init /\ [][NextSal]_vars

SpecWait == Init /\ [][NextWait]_vars

SpecCtl == Init /\ [][NextCtl]_vars

SpecTopic == Init /\ [][NextTopic]_vars

SpecStart == Init /\ [][NextStart]_vars

SpecClose == Init /\ [][NextClose]_vars

SpecCtor == Init /\ [][NextCtor]_vars

SpecLog == Init /\ [][NextLog]_vars

SpecSeq == Init /\ [][NextSeq]_vars

SpecReplay == Init /\ [][NextReplay]_vars

SpecInbound == Init /\ [][NextInbound]_vars

(***************************************************************************)
(* The component state machine: claims                                     *)
(***************************************************************************)
\* The transition table of the specification: legal source states.
LegalSources(c) ==
    CASE c = "start"        -> {"STANDBY"}
      [] c = "enable"       -> {"DISABLED"}
      [] c = "disable"      -> {"ENABLED"}
      [] c = "standby"      -> {"DISABLED", "FAULT"}
      [] c = "enterControl" -> {"OFFLINE", "FAULT"}
      [] c = "exitControl"  -> {"STANDBY"}

\* The transition table of the specification: target state.
TargetState(c) ==
    CASE c = "start"        -> "DISABLED"
      [] c = "enable"       -> "ENABLED"
      [] c = "disable"      -> "DISABLED"
      [] c = "standby"      -> "STANDBY"
      [] c = "enterControl" -> "STANDBY"
      [] c = "exitControl"  -> "OFFLINE"

\* A transition command has returned (or raised) and nothing else has run.
Returned(c) == pc = "idle" /\ cmd = c /\ outcome # "none"

LastPublished == published[Len(published)]

C4_LegalTransitionSucceeds ==
    \A c \in {"start", "enable", "disable", "enterControl", "exitControl"} :
        (/\ Returned(c)
         /\ pre_state \in LegalSources(c)
         /\ ~begin_raises
         /\ ~end_raises)
            => /\ outcome = "ok"
               /\ cmd_ack = "COMPLETE"
               /\ state = TargetState(c)

\* enterControl issued in FAULT succeeded.
C4_Witness ==
    /\ Returned("enterControl")
    /\ pre_state = "FAULT"
    /\ outcome = "ok"
    /\ state = "STANDBY"

\* C5: standby issued in DISABLED or in FAULT (hooks not raising) succeeds
\* and leaves the component in STANDBY.
C5_StandbyFromDisabledOrFault ==
    (/\ Returned("standby")
     /\ pre_state \in {"DISABLED", "FAULT"}
     /\ ~begin_raises
     /\ ~end_raises)
        => /\ outcome = "ok"
           /\ state = "STANDBY"

\* C6: fault entered from STANDBY, DISABLED, ENABLED or FAULT leaves the
\* component in FAULT, and the state never goes from OFFLINE to FAULT.
C6_FaultOnlyFromNonOffline ==
    /\ (pc = "idle" /\ cmd = "fault" /\ pre_state # "OFFLINE")
           => state = "FAULT"
    /\ ~(pc = "idle" /\ cmd = "fault" /\ pre_state = "OFFLINE"
         /\ state = "FAULT")

\* The post-hook of the last command ran and raised.
EndHookRaised ==
    /\ pc = "idle"
    /\ cmd \in TransitionCommands
    /\ end_raises
    /\ trace # <<>>
    /\ trace[Len(trace)] = "end"

C8_PublishedOnceAndCurrent ==
    /\ (pc = "idle" /\ outcome = "ok")
           => /\ Len(published) = pub0 + 1
              /\ LastPublished = state
              /\ summary_state = state
    /\ (pc = "idle" /\ published # <<>>) => LastPublished = state

\* A transition and then a fault entry have each published their state.
C8_Witness ==
    /\ pc = "idle"
    /\ cmd = "fault"
    /\ published = <<"DISABLED", "FAULT">>

\* C9: a successful exitControl leaves OFFLINE, has published OFFLINE and
\* then schedules termination; a rejected or failed exitControl, and every
\* other operation, schedules none; termination is scheduled only in
\* OFFLINE.
C9_TerminationOnlyAfterExit ==
    /\ (Returned("exitControl") /\ outcome = "ok")
           => /\ state = "OFFLINE"
              /\ LastPublished = "OFFLINE"
              /\ num_die = die0 + 1
              /\ trace = <<"begin", "mutate", "end", "report", "die">>
    /\ (pc = "idle" /\ ~(cmd = "exitControl" /\ outcome = "ok"))
           => num_die = die0
    /\ pc = "die"
           => /\ state = "OFFLINE"
              /\ published # <<>>
              /\ LastPublished = "OFFLINE"
              /\ num_die = die0

\* exitControl issued in STANDBY succeeded and scheduled termination.
C9_Witness ==
    /\ Returned("exitControl")
    /\ pre_state = "STANDBY"
    /\ outcome = "ok"
    /\ num_die = 1

\* C12: a command whose callback raised (ExpectedError of the state check
\* or of reject_command, or an exception of a hook) is acknowledged FAILED
\* and one whose callback returned is acknowledged COMPLETE; a command
\* without a do_<name> method always fails and changes nothing; and a
\* callback that raised does not end the loop: the loop is closed only by
\* the termination a successful exitControl scheduled.
C12_RaisedGivesFailed ==
    /\ (pc = "idle" /\ cmd # "fault" /\ outcome # "none")
           => /\ (outcome = "ok") <=> (cmd_ack = "COMPLETE")
              /\ (outcome # "ok") <=> (cmd_ack = "FAILED")
    /\ \A c \in OPTIONAL_COMMAND_NAMES \ TransitionCommands :
           Returned(c) => /\ outcome = "ExpectedError"
                          /\ cmd_ack = "FAILED"
                          /\ state = pre_state
                          /\ Len(published) = pub0
    /\ loop_closed => num_die > 0

\* setValue was rejected as not supported, after which the component is
\* still open for the next command.
C12_Witness ==
    /\ Returned("setValue")
    /\ cmd_ack = "FAILED"
    /\ ~loop_closed
    /\ ncmds < MaxCmds

(***************************************************************************)
(* Properties of the session                                               *)
(***************************************************************************)
\* The sequence numbers of the commands issued so far.
Issued == {s \in Seqs : s < next_seq}

\* The topics the Remote has made.
NumTopics == Cardinality(ReaderNames) + Cardinality(WriterNames)

\* C1: when close() has completed (done_task is set) the table of running
\* commands is empty and no command has a pending wait: each command issued
\* either ended with the terminal acknowledgment it received or was aborted
\* by close() with the result "shutting down", which resolved its wait; a
\* command that got no acknowledgment at all is among the aborted ones.
C1_CloseAbortsOutstanding ==
    done_task = "done" =>
        /\ running_cmds = {}
        /\ \A s \in Issued :
               LET info == cmd_info[s]
               IN  /\ info.waiting = "none"
                   /\ info.ackcmd \in TerminalAcks
                   /\ \/ /\ info.acks # <<>>
                         /\ Last(info.acks) \in TerminalAcks
                         /\ info.ackcmd = Last(info.acks)
                      \/ /\ info.ackcmd = "ABORTED"
                         /\ info.result = "shutting down"
                   /\ info.acks = <<>> => info.resolved = "ABORTED"

\* close() has completed and a command that never got an acknowledgment
\* had its wait resolved with ABORTED, "shutting down".
C1_Witness ==
    /\ done_task = "done"
    /\ \E s \in Issued :
           /\ cmd_info[s].acks = <<>>
           /\ cmd_info[s].ackcmd = "ABORTED"
           /\ cmd_info[s].result = "shutting down"
           /\ cmd_info[s].resolved = "ABORTED"

\* C2: however many times and however interleaved close() is called, each
\* shutdown step (trigger the guard condition, cancel the read loop, close
\* a topic, abort the commands, leave the domain) runs at most once,
\* done_task is set exactly once, and a call of close() has returned only
\* if done_task is set.
C2_CloseRunsOnce ==
    /\ steps_run.trigger <= 1
    /\ steps_run.cancel <= 1
    /\ steps_run.close_topic <= NumTopics
    /\ steps_run.abort <= 1
    /\ steps_run.remove <= 1
    /\ steps_run.set_done <= 1
    /\ (done_task = "done") <=> (steps_run.set_done = 1)
    /\ done_task = "done" =>
           /\ steps_run.trigger = 1
           /\ steps_run.cancel = 1
           /\ steps_run.close_topic = NumTopics
           /\ steps_run.abort = 1
           /\ steps_run.remove = 1
    /\ \A p \in Closers : close_pc[p] = "returned" => done_task = "done"

\* A second call of close() is held at "await self.done_task" while the
\* first call is in the middle of closing the topics.
C2_Witness ==
    /\ done_task = "pending"
    /\ \E p, q \in Closers :
           /\ close_pc[p] = "await_done"
           /\ close_pc[q] \in {"reader_close", "writer_close"}

\* The place of an acknowledgment in the order of a command's reports.
Rank(a) ==
    CASE a = "ACK" -> 1
      [] a = "INPROGRESS" -> 2
      [] OTHER -> 3

\* The acknowledgments seen for a command are in the order Acknowledged,
\* InProgress, terminal.
InOrder(acks) ==
    /\ \A i, j \in 1..Len(acks) : i < j => Rank(acks[i]) < Rank(acks[j])
    /\ acks # <<>> => acks[1] = "ACK"

\* What one step does to the wait of command s when acknowledgments of an
\* outstanding command arrive.
WaitResolves(s) ==
    LET old == cmd_info[s]
        new == cmd_info'[s]
        n == Len(old.acks)
    IN  /\ (s \in running_cmds /\ Len(new.acks) > n /\ old.waiting = "next") =>
               /\ new.waiting = "none"
               /\ new.resolved = new.acks[n + 1]
        /\ (s \in running_cmds /\ Len(new.acks) > n /\ old.waiting = "final") =>
               IF Last(new.acks) \in TerminalAcks
               THEN new.waiting = "none" /\ new.resolved = Last(new.acks)
               ELSE new.waiting = "final" /\ new.resolved = old.resolved
        /\ (old.waiting = "final" /\ new.waiting = "none") =>
               new.resolved \in TerminalAcks

\* C10: a wait for the next acknowledgment of an outstanding command
\* resolves with the first acknowledgment then received, terminal or not;
\* a wait for the final acknowledgment stays pending over ACK and
\* INPROGRESS and resolves only with a terminal status; and the
\* acknowledgments seen for a command come in the order ACK, INPROGRESS,
\* COMPLETE.
C10_NextAndFinalAck ==
    /\ [](\A s \in Seqs : InOrder(cmd_info[s].acks))
    /\ [][\A s \in Seqs : WaitResolves(s)]_vars

\* A command has been seen through ACK, INPROGRESS and COMPLETE, and its
\* last wait resolved with COMPLETE.
C10_Witness ==
    \E s \in Issued :
        /\ cmd_info[s].acks = <<"ACK", "INPROGRESS", "COMPLETE">>
        /\ cmd_info[s].resolved = "COMPLETE"
        /\ cmd_info[s].waiting = "none"

\* C11: a wait whose timeout expires ends with an acknowledgment error
\* that carries a locally produced NOACK (or TIMEOUT) acknowledgment.
C11_TimeoutGivesNoAck ==
    \A s \in Issued :
        cmd_info[s].timeout_ack \in {"none", "NOACK", "TIMEOUT"}

(***************************************************************************)
(* Properties of the command callback                                      *)
(***************************************************************************)
Running == {i \in Invs : handler[i] = "running"}

\* C13: while allow_multiple_callbacks is false at most one callback is in
\* progress, and a callback started while the flag was false started
\* only when every earlier one had ended;
\* callbacks start in the order of arrival; every callback that has ended
\* was acknowledged COMPLETE.  (With allow_multiple_callbacks true two
\* callbacks can be in progress at once: C13_Witness.)
C13_SequentialUnlessAllowed ==
    /\ ~allow_multiple_callbacks => Cardinality(Running) <= 1
    /\ \A p \in 1..Len(events) :
           (events[p][1] = "start" /\ events[p][3]) =>
               \A q \in 1..(p - 1) :
                   events[q][1] = "start" =>
                       \E r \in (q + 1)..(p - 1) :
                           events[r] = <<"end", events[q][2], FALSE>>
    /\ \A p, q \in 1..Len(events) :
           (p < q /\ events[p][1] = "start" /\ events[q][1] = "start")
               => events[p][2] < events[q][2]
    /\ \A i \in Invs : (handler[i] = "done") <=> (handler_ack[i] = "COMPLETE")

\* Two callbacks are in progress at the same time, which
\* allow_multiple_callbacks permits.
C13_Witness ==
    /\ allow_multiple_callbacks
    /\ Cardinality(Running) >= 2

(***************************************************************************)
(* Properties of the read topic                                            *)
(***************************************************************************)
\* q holds its elements in strictly increasing order (the order published,
\* each at most once).
Increasing(q) == \A i, j \in 1..Len(q) : i < j => q[i] < q[j]

\* C14: the queue never holds more than QueueLen samples; in pull mode it
\* holds the most recent samples that arrived, in the order published,
\* and while nothing has been consumed it holds exactly the last QueueLen
\* of them (the oldest are evicted); get_oldest returns the queued samples
\* oldest first, each once, and never a sample older than one it has
\* returned or one that was evicted.
C14_QueueDropsOldest ==
    /\ Len(data_queue) <= QueueLen
    /\ callback_log = <<>> =>
           /\ Len(data_queue) <= Len(arrived)
           /\ data_queue = LastN(Len(data_queue), arrived)
    /\ (callback_log = <<>> /\ pulled = <<>> /\ ~flushed) =>
           data_queue = LastN(QueueLen, arrived)
    /\ Increasing(arrived)
    /\ Increasing(pulled)
    /\ \A i \in 1..Len(pulled) : pulled[i] \in Range(arrived)
    /\ (last_op.op = "get_oldest" /\ last_op.result = "data") =>
           /\ last_op.value = Last(pulled)
           /\ data_queue # <<>> => Head(data_queue) > last_op.value

\* Three samples arrived at a queue of two before any was consumed;
\* get_oldest returned the last two, in order, and then None.
C14_Witness ==
    /\ arrived = <<1, 2, 3>>
    /\ pulled = <<2, 3>>
    /\ ~flushed
    /\ last_op = Op("get_oldest", "None", 0)

\* A call of the consumer's operation o begins in this step.
Calls(o) == last_op.op = "none" /\ last_op'.op = o

\* C15: get() returns the sample that arrived last and removes nothing,
\* so that repeated calls without an arrival return the same sample; it
\* returns None exactly when no sample has arrived.
C15_GetReturnsCurrent ==
    /\ [](current_data = IF arrived = <<>> THEN 0 ELSE Last(arrived))
    /\ [][Calls("get") =>
              /\ last_op' = IF arrived = <<>>
                            THEN Op("get", "None", 0)
                            ELSE Op("get", "data", Last(arrived))
              /\ UNCHANGED <<data_queue, current_data, arrived, pulled,
                             callback_log, next_task>>]_vars

\* get() returned the sample that arrived last while an older sample was
\* (and still is) the oldest in the queue.
C15_Witness ==
    /\ last_op = Op("get", "data", 3)
    /\ arrived = <<1, 2, 3>>
    /\ data_queue = <<2, 3>>

\* The samples that arrived in this step.
NewlyArrived == SubSeq(arrived', Len(arrived) + 1, Len(arrived'))

\* C16: every sample is delivered at most once, to the callback or to a
\* pull, in the order of arrival; with a callback registered each
\* arriving sample is given to the callback, in order, and is not queued;
\* next(flush=False) returns the oldest queued sample and removes it, and
\* having found the queue empty it returns the next sample to arrive or
\* times out.
C16_FifoOnce ==
    /\ [](/\ Increasing(pulled)
          /\ Increasing(callback_log)
          /\ Range(pulled) \cap Range(callback_log) = {}
          /\ Range(pulled) \cup Range(callback_log) \subseteq Range(arrived)
          /\ Range(data_queue) \cap Range(pulled) = {}
          /\ (last_op.op = "next" /\ last_op.result = "TimeoutError")
                 => next_task = "none")
    /\ [][(has_callback /\ arrived' # arrived) =>
              /\ callback_log' = callback_log \o NewlyArrived
              /\ UNCHANGED <<data_queue, pulled>>]_vars
    /\ [][(Calls("next") /\ ~has_callback) =>
              IF data_queue # <<>>
              THEN /\ last_op' = Op("next", "data", Head(data_queue))
                   /\ data_queue' = Tail(data_queue)
                   /\ pulled' = Append(pulled, Head(data_queue))
              ELSE /\ last_op'.result = "waiting"
                   /\ UNCHANGED <<data_queue, pulled>>]_vars

\* Two samples were queued; next(flush=False) returned them one by one in
\* the order of arrival, and the third call timed out.
C16_Witness ==
    /\ arrived = <<1, 2>>
    /\ pulled = <<1, 2>>
    /\ ~flushed
    /\ last_op = Op("next", "TimeoutError", 0)

PullOps == {"get_oldest", "flush", "next", "next_flush"}

StartCalledAgain ==
    /\ last_call'.n = last_call.n + 1
    /\ \/ last_call'.op = "start" /\ start_called
       \/ last_call'.op = "Controller.start" /\ controller_start_called

\* C18: start() runs at most once per session and per Controller: a call
\* made when start has been called raises at once, reads no historical data
\* and creates no read loop, and leaves the start_task of the object it is
\* called on as it was.
C18_SecondStartRaises ==
    [][StartCalledAgain =>
           /\ last_call'.result = "RuntimeError"
           /\ UNCHANGED <<start_task, num_history, num_loops, read_loop_task>>
           /\ last_call'.op = "Controller.start"
                  => UNCHANGED controller_start_task]_vars

\* The part of C18 about the session only: it holds.
SessionStartsOnce ==
    [][(StartCalledAgain /\ last_call'.op = "start") =>
           /\ last_call'.result = "RuntimeError"
           /\ UNCHANGED <<start_task, num_history, num_loops, read_loop_task,
                          start_pc, start_called>>]_vars

\* A step that is a call of add_reader.
AddReaderCalled ==
    /\ last_call'.n = last_call.n + 1
    /\ last_call'.op = "add_reader"

\* C19: add_reader called after start() has been called, or for a topic
\* that is registered already, raises and leaves the readers and the
\* wait-set as they were; otherwise it registers the topic and attaches its
\* read condition.  No topic is registered twice, and the wait-set holds
\* the guard condition and the read conditions of the registered topics.
C19_AddReaderOnlyBeforeStart ==
    /\ [](\A i, j \in 1..Len(readers) : readers[i] = readers[j] => i = j)
    /\ [](waitset = {"guard"} \cup Range(readers))
    /\ [][AddReaderCalled =>
              IF start_called \/ last_call'.arg \in Range(readers)
              THEN /\ last_call'.result = "RuntimeError"
                   /\ UNCHANGED <<readers, waitset>>
              ELSE /\ last_call'.result = "ok"
                   /\ readers' = Append(readers, last_call'.arg)
                   /\ waitset' = waitset \cup {last_call'.arg}]_vars

\* add_reader has raised for a topic that is not registered, after start
\* was called.
C19_Witness ==
    /\ start_called
    /\ last_call.op = "add_reader"
    /\ last_call.arg = "heartbeat"
    /\ last_call.result = "RuntimeError"
    /\ "heartbeat" \notin Range(readers)

\* add_reader has raised for a topic that is registered, before start.
C19_WitnessDuplicate ==
    /\ ~start_called
    /\ last_call.op = "add_reader"
    /\ last_call.result = "RuntimeError"
    /\ last_call.arg \in Range(readers)

\* C20: until start() is called nothing is taken from the readers and
\* nothing is given to a topic; the read loop is created at most once, and
\* by the step of start() that follows the wait for historical data and
\* that gives the historical data (the last max_history samples the reader
\* holds) to the topic; the loop runs only after that.
C20_HistoryBeforeLoop ==
    /\ [](~start_called =>
              /\ arrived = <<>>
              /\ Len(data_wire) = num_put
              /\ num_history = 0
              /\ read_loop_task = "initial")
    /\ [](num_loops <= 1)
    /\ [](loop_pc # "none" =>
              /\ num_loops = 1
              /\ num_history = 1
              /\ start_pc = "returned")
    /\ [][num_loops' # num_loops =>
              /\ start_pc = "waited"
              /\ num_history' = num_history + 1
              /\ data_wire' = <<>>
              /\ arrived' = arrived \o
                     LastN(max_history,
                           [i \in 1..Len(data_wire) |-> data_wire[i].seq])
              /\ loop_pc = "none"
              /\ loop_pc' = "wait"]_vars

\* The loop runs, and start() gave the topic the last of the two samples
\* that were published before.
C20_Witness ==
    /\ read_loop_task = "running"
    /\ num_loops = 1
    /\ num_put >= 2
    /\ arrived # <<>>
    /\ arrived[1] = 2

(***************************************************************************)
(* start_task and the end of start()                                       *)
(***************************************************************************)
\* C21: when start() has returned start_task holds a result, and when it
\* has raised start_task holds the exception, however start() and close()
\* interleave.
C21_StartTaskFinished ==
    /\ start_pc = "returned" => start_task = "done"
    /\ start_pc = "raised" => start_task = "exception"

(***************************************************************************)
(* Controller.close                                                        *)
(***************************************************************************)
\* C22: Controller.close may be called many times: only the first call
\* runs the shutdown (each step once); every other call returns only when
\* done_task is done and never raises; done_task is set once, to the
\* exception given to the first call, or to the result None if none was
\* given, and it is set when the first call ends.
C22_CloseManyTimes ==
    /\ close_steps.close_tasks <= 1
    /\ close_steps.remove_handler <= 1
    /\ close_steps.domain_close <= 1
    /\ close_steps.set_done <= 1
    /\ (controller_done_task # "pending") = (close_steps.set_done = 1)
    /\ controller_done_task # "pending" =>
           /\ first_closer # "none"
           /\ controller_done_task =
                  IF close_exception[first_closer] # "none"
                  THEN close_exception[first_closer] ELSE "None"
    /\ \A p \in ControllerClosers :
           /\ controller_close_pc[p] \in {"returned", "raised"} =>
                  controller_done_task # "pending"
           /\ p # first_closer =>
                  controller_close_pc[p] \in {"idle", "await_done", "returned"}

\* Two later calls have returned, one of them made while the first call was
\* still running with an exception given, and done_task holds that
\* exception.
C22_Witness ==
    /\ first_closer = "a"
    /\ close_exception["a"] = "ValueError"
    /\ close_exception["b"] = "OSError"
    /\ controller_done_task = "ValueError"
    /\ controller_close_pc["b"] = "returned"
    /\ controller_close_pc["c"] = "returned"

(***************************************************************************)
(* Controller.__init__ and the do_<name> methods                           *)
(***************************************************************************)
\* The do_ methods match the commands: every command that is not optional
\* has one, and every one names a command.
DoMethodsMatch ==
    /\ \A name \in command_names \ OPTIONAL_COMMAND_NAMES : name \in do_names
    /\ do_names \subseteq command_names

C23_WitnessExtra ==
    /\ constructed = "TypeError"
    /\ "extra_command" \in do_names
    /\ command_names \subseteq do_names

(***************************************************************************)
(* LogMixin                                                                *)
(***************************************************************************)
\* C24: a log call can always be made, whatever the state of the loop, and
\* it only appends the record to the queue; the loop publishes the records
\* in the order logged, each at most once, and at most one in a polling
\* interval; a record is in the queue or was taken from it, never both.
C24_LogNeverBlocks ==
    /\ [](num_logged < MaxLogs => ENABLED Log)
    /\ [][num_logged' # num_logged =>
              /\ log_queue' = Append(log_queue, num_logged')
              /\ UNCHANGED <<log_published, log_pc, enable_logging,
                             stop_pc>>]_vars
    /\ [](\A i, j \in 1..Len(log_published) :
              i < j => /\ log_published[i].record < log_published[j].record
                       /\ log_published[i].interval
                              < log_published[j].interval)
    /\ [](\A i \in 1..Len(log_published) :
              /\ log_published[i].record \in 1..num_logged
              /\ \A k \in 1..Len(log_queue) :
                     log_queue[k] > log_published[i].record)
    /\ [](\A i, j \in 1..Len(log_queue) : i < j => log_queue[i] < log_queue[j])

\* Three records were logged; two were published, in different intervals;
\* the third is still in the queue and the loop has stopped.
C24_Witness ==
    /\ num_logged = 3
    /\ Len(log_published) = 2
    /\ log_published[2].interval > log_published[1].interval
    /\ log_pc = "done"
    /\ log_queue = <<3>>

\* C25: stop_logging ends the loop, and if a record is in the queue when it
\* is called, one such record is published before the loop stops.
C25_StopSendsOnePending ==
    (stop_pc # "none" /\ log_pc = "done" /\ pending_at_stop > 0)
        => sent_after_stop = 1

\* What the loop does in fact: once stop_logging has been called nothing
\* is published any more.
NothingSentAfterStop == sent_after_stop = 0

(***************************************************************************)
(* Sequence numbers of commands                                            *)
(***************************************************************************)
\* C26 as claimed: every command issued receives a sequence number greater
\* than that of every command issued before it, on whatever command topic
\* of the session.
C26_SeqAlwaysGreater ==
    \A i, j \in 1..Len(cmd_seqs) : i < j => cmd_seqs[i].seq < cmd_seqs[j].seq

\* C26 as amended: the sequence numbers of one session come from one
\* source shared by its command topics, which counts up by one and, after
\* imax, starts again at imin: each command receives the successor of the
\* number of the command before it, greater than it unless that was imax;
\* so any imax - imin + 1 commands issued in a row have different numbers.
C26_SeqIncreasesUntilWrap ==
    /\ \A i \in 1..Len(cmd_seqs) :
           cmd_seqs[i].seq \in gen_imin..gen_imax
    /\ \A i \in 1..(Len(cmd_seqs) - 1) :
           cmd_seqs[i + 1].seq =
               IF cmd_seqs[i].seq = gen_imax THEN gen_imin
               ELSE cmd_seqs[i].seq + 1
    /\ \A i, j \in 1..Len(cmd_seqs) :
           (i < j /\ j - i <= gen_imax - gen_imin) =>
               cmd_seqs[i].seq # cmd_seqs[j].seq

\* The source has gone from imax to imin between two commands issued on
\* different topics, and a third command followed.
C26_Witness ==
    /\ Len(cmd_seqs) >= 3
    /\ cmd_seqs[1].seq = gen_imax
    /\ cmd_seqs[2].seq = gen_imin
    /\ cmd_seqs[1].topic # cmd_seqs[2].topic
    /\ cmd_seqs[3].seq = gen_imin + 1

(***************************************************************************)
(* assert_started                                                          *)
(***************************************************************************)
\* C27: assert_started raises RuntimeError while the session is open and
\* not successfully started, and does not raise once the session is
\* closed, whatever start() came to.
C27_AssertStarted ==
    /\ (isopen /\ ~started) => assert_started = "RuntimeError"
    /\ ~isopen => assert_started = "ok"

\* The part of C27 about an open session: it holds.
AssertStartedWhileOpen ==
    isopen => assert_started = IF start_task = "done" THEN "ok"
                               ELSE "RuntimeError"

(***************************************************************************)
(* Inbound acknowledgments                                                 *)
(***************************************************************************)
\* A step of the read loop that gives the ackcmd samples read to
\* _ackcmd_callback, one by one.
AckDelivery == ack_wire # <<>> /\ ack_wire' = <<>>

\* The acknowledgment codes, in the order read, of the valid samples of
\* wire for sequence number s whose identity is unset or this session's.
AcksFor(s, wire) ==
    LET own == SelectSeq(wire,
                         LAMBDA d : /\ d.valid_data
                                    /\ d.private_seqNum = s
                                    /\ d.identity \in {"", Identity})
    IN  [i \in 1..Len(own) |-> own[i].ack]

HasFinal(q) == \E i \in 1..Len(q) : q[i] \in TerminalAcks

\* q up to its first terminal code.
RECURSIVE UpToFinal(_)
UpToFinal(q) ==
    IF q = <<>> THEN <<>>
    ELSE IF Head(q) \in TerminalAcks THEN <<Head(q)>>
    ELSE <<Head(q)>> \o UpToFinal(Tail(q))

\* C28: the acknowledgments read for an outstanding command (those that
\* are not of another identity) are given to its CommandInfo in order, up
\* to the first terminal one; the command leaves the table exactly if one
\* of them is terminal, and stays after non-terminal ones; what is read
\* for a command that is not in the table changes nothing.
C28_AckDeliveredBySeqNum ==
    [][AckDelivery =>
           /\ \A s \in running_cmds :
                  LET q == AcksFor(s, ack_wire)
                  IN  /\ cmd_info'[s].acks = cmd_info[s].acks \o UpToFinal(q)
                      /\ (s \in running_cmds') = ~HasFinal(q)
                      /\ q # <<>> => cmd_info'[s].ackcmd = Last(UpToFinal(q))
           /\ \A s \in Seqs \ running_cmds :
                  /\ s \notin running_cmds'
                  /\ cmd_info'[s] = cmd_info[s]]_vars

\* Command 1 got ACK and COMPLETE and left the table; command 2 got ACK
\* and is still in it.
C28_Witness ==
    /\ cmd_info[1].acks = <<"ACK", "COMPLETE">>
    /\ 1 \notin running_cmds
    /\ cmd_info[2].acks = <<"ACK">>
    /\ 2 \in running_cmds

\* C29: samples for a sequence number that is not outstanding, and samples
\* whose identity is set and is not this session's, are dropped: the read
\* loop goes on (no error), and a command for which nothing else was read
\* keeps its place in the table, or its absence, and its CommandInfo (so
\* no wait is resolved).
C29_UnmatchedAckDiscarded ==
    [][AckDelivery =>
           /\ read_loop_task' = "running"
           /\ \A s \in Seqs :
                  (s \notin running_cmds \/ AcksFor(s, ack_wire) = <<>>) =>
                      /\ cmd_info'[s] = cmd_info[s]
                      /\ (s \in running_cmds') = (s \in running_cmds)]_vars

\* An acknowledgment COMPLETE with the other Remote's identity and the
\* sequence number of command 1 has been read; command 1, not yet
\* acknowledged by its controller, still waits.
C29_Witness ==
    /\ echo_identity
    /\ other_acks # <<>>
    /\ other_acks[1].private_seqNum = 1
    /\ ack_wire = <<>>
    /\ 1 \in running_cmds
    /\ ctrl_stage[1] = 0
    /\ cmd_info[1].acks = <<>>
    /\ cmd_info[1].waiting = "final"
    /\ read_loop_task = "running"
    /\ next_seq = 3

(***************************************************************************)
(* The order of the steps of a transition                                  *)
(***************************************************************************)
TransitionSteps == <<"begin", "mutate", "end", "report">>

FailedEarly ==
    /\ pc = "idle"
    /\ cmd \in TransitionCommands
    /\ \/ outcome = "ExpectedError"
       \/ outcome = "Exception" /\ begin_raises

\* C37: a transition command that is rejected for its source state, or
\* whose pre-hook begin_<cmd> raises, has no side effects: the state is the
\* state before the command, the state was never assigned and the post-hook
\* never run, and no summary-state event was published; a rejected command
\* runs no hook at all.  While such a command runs (up to the pre-hook)
\* nothing has changed either.
C37_FailedTransitionNoEffect ==
    /\ FailedEarly =>
           /\ state = pre_state
           /\ \A i \in 1..Len(trace) : trace[i] \notin {"mutate", "end", "report", "die"}
           /\ published = SubSeq(published, 1, pub0)
           /\ Len(published) = pub0
           /\ num_die = die0
           /\ cmd_ack = "FAILED"
           /\ outcome = "ExpectedError" =>
                  (trace = <<>> /\ pre_state \notin DoArgs(cmd).allowed_curr_states)
           /\ (outcome = "Exception" /\ begin_raises) =>
                  (trace = <<"begin">> /\ pre_state \in DoArgs(cmd).allowed_curr_states)
    /\ (pc \in {"check", "begin"}) =>
           (state = pre_state /\ Len(published) = pub0)
    /\ (pc = "idle" /\ cmd \in TransitionCommands /\ outcome # "none"
        /\ pre_state \notin DoArgs(cmd).allowed_curr_states) =>
           outcome = "ExpectedError"
    /\ (pc = "idle" /\ cmd \in TransitionCommands /\ outcome # "none"
        /\ pre_state \in DoArgs(cmd).allowed_curr_states /\ begin_raises) =>
           outcome = "Exception"

\* The pre-hook of enable raised in DISABLED after an earlier transition
\* had published its state: the component is still DISABLED.
C37_Witness ==
    /\ FailedEarly
    /\ cmd = "enable"
    /\ outcome = "Exception"
    /\ begin_raises
    /\ state = "DISABLED"
    /\ published # <<>>

\* disable was rejected in DISABLED.
C37_WitnessRejected ==
    /\ FailedEarly
    /\ cmd = "disable"
    /\ outcome = "ExpectedError"
    /\ state = "DISABLED"

\* The first call of Controller.close has ended (returned or raised).
FirstCloseEnded ==
    /\ first_closer # "none"
    /\ controller_close_pc[first_closer] \in {"returned", "raised"}

\* C39: an exception of close_tasks() does not stop the shutdown of the
\* Controller and does not leave close(): close() goes on to the sleep of
\* the shutdown delay, removes the log handler, closes the domain and sets
\* done_task (as the exception argument says); close() raises only what
\* domain.close() raises, and done_task is set then too.
C39_CloseTasksFailureDoesNotBlock ==
    /\ [](\A p \in ControllerClosers :
              /\ controller_close_pc[p] \in {"sleep", "domain_close"} =>
                     /\ p = first_closer
                     /\ close_steps.sleep = 1
              /\ controller_close_pc[p] = "domain_close" =>
                     /\ close_steps.remove_handler = 1
                     /\ close_steps.domain_close = 1
              /\ controller_close_pc[p] = "raised" =>
                     /\ p = first_closer
                     /\ controller_done_task # "pending")
    /\ []((FirstCloseEnded /\ close_tasks_raised) =>
              /\ close_steps.sleep = 1
              /\ close_steps.remove_handler = 1
              /\ close_steps.domain_close = 1
              /\ close_steps.set_done = 1
              /\ controller_done_task =
                     done_task_outcome(close_exception[first_closer]))
    /\ [][\A p \in ControllerClosers :
              (controller_close_pc[p] = "close_tasks"
               /\ controller_close_pc'[p] # "close_tasks") =>
                  /\ controller_close_pc'[p] = "sleep"
                  /\ controller_done_task' = controller_done_task]_vars
    /\ [][\A p \in ControllerClosers :
              (controller_close_pc[p] # "raised"
               /\ controller_close_pc'[p] = "raised") =>
                  /\ controller_close_pc[p] = "domain_close"
                  /\ controller_done_task' # "pending"]_vars

\* close_tasks raised and domain.close() raised: close() raised, with the
\* shutdown done and done_task set to the exception given to close().
C39_Witness ==
    /\ close_tasks_raised
    /\ first_closer = "a"
    /\ controller_close_pc["a"] = "raised"
    /\ close_exception["a"] = "OSError"
    /\ controller_done_task = "OSError"
    /\ close_steps.domain_close = 1

(***************************************************************************)
(* Acknowledgments without identity                                        *)
(***************************************************************************)
\* C40: the identity of an acknowledgment is looked at only if it is set:
\* a sample written for a command of another Remote that carries no
\* identity and the sequence number of an outstanding command of this
\* session (and is read before any terminal acknowledgment of that
\* command) is given to the command's CommandInfo like one of its own: it
\* is recorded, and being terminal it resolves the pending wait and takes
\* the command out of the table.
C40_EmptyIdentityAccepted ==
    [][AckDelivery =>
           \A i \in 1..Len(ack_wire) :
               LET d == ack_wire[i]
                   s == d.private_seqNum
                   before == AcksFor(s, SubSeq(ack_wire, 1, i - 1))
               IN  (/\ d.identity = ""
                    /\ d \in Range(other_acks)
                    /\ s \in running_cmds
                    /\ ~HasFinal(before)) =>
                       /\ cmd_info'[s].acks =
                              cmd_info[s].acks \o Append(before, d.ack)
                       /\ cmd_info'[s].ackcmd = d.ack
                       /\ d.ack \in TerminalAcks =>
                              /\ s \notin running_cmds'
                              /\ cmd_info[s].waiting # "none" =>
                                     /\ cmd_info'[s].waiting = "none"
                                     /\ cmd_info'[s].resolved = d.ack]_vars

\* The controller does not echo identity; command 1, which its controller
\* never acknowledged, was resolved with the COMPLETE written for a command
\* of the other Remote that has the same sequence number.
C40_Witness ==
    /\ ~echo_identity
    /\ other_acks # <<>>
    /\ other_acks[1].private_seqNum = 1
    /\ other_acks[1].identity = ""
    /\ ctrl_stage[1] = 0
    /\ 1 \notin running_cmds
    /\ cmd_info[1].acks = <<"COMPLETE">>
    /\ cmd_info[1].resolved = "COMPLETE"
    /\ done_task = "pending"

(***************************************************************************)
(* close() after the read loop has failed                                  *)
(***************************************************************************)
\* The read loop has ended on an exception (logged by _read_loop).
LoopFailed == read_loop_task = "failed"

\* A call of close() is in the middle of the shutdown.
Closing(p) == close_pc[p] \in {"sleep", "reader_close", "writer_close"}

\* C36: after the read loop has ended on an exception the session is
\* still open, and close() runs as it does otherwise: it can be called,
\* none of its steps waits for the loop (a call in the shutdown can always
\* take its next step, a call that waits for done_task returns once it is
\* set), the step that sets done_task aborts every command still
\* outstanding with "shutting down" and takes the session out of the
\* domain, by then every reader and writer is closed, and each shutdown
\* step has run once.
C36_CloseAfterLoopFailure ==
    /\ []((LoopFailed /\ close_pc = [p \in Closers |-> "idle"]) => isopen)
    /\ [](LoopFailed =>
              \A p \in Closers :
                  /\ close_pc[p] = "idle" => ENABLED CloseCall(p)
                  /\ close_pc[p] = "sleep" => ENABLED CloseAfterSleep(p)
                  /\ close_pc[p] \in {"reader_close", "writer_close"} =>
                         ENABLED CloseResume(p)
                  /\ (close_pc[p] = "await_done" /\ done_task = "done") =>
                         ENABLED CloseAwaitDone(p)
                  /\ close_pc[p] = "await_done" =>
                         (done_task = "done" \/ \E q \in Closers : Closing(q)))
    /\ []((LoopFailed /\ done_task = "done") =>
              /\ readers = <<>>
              /\ writers = <<>>
              /\ \A r \in ReaderNames : ~reader_isopen[r]
              /\ \A w \in WriterNames : ~writer_isopen[w]
              /\ running_cmds = {}
              /\ ~in_domain
              /\ ~isopen
              /\ steps_run = [trigger |-> 1, cancel |-> 1,
                              close_topic |-> NumTopics, abort |-> 1,
                              remove |-> 1, set_done |-> 1]
              /\ \E p \in Closers : close_pc[p] = "returned")
    /\ [][(LoopFailed /\ done_task = "pending" /\ done_task' = "done") =>
              /\ LoopFailed'
              /\ \A s \in running_cmds :
                     /\ cmd_info'[s].ackcmd = "ABORTED"
                     /\ cmd_info'[s].result = "shutting down"
                     /\ cmd_info'[s].waiting = "none"
                     /\ cmd_info[s].waiting # "none" =>
                            cmd_info'[s].resolved = "ABORTED"]_vars

\* The read loop failed while a command was waiting for its final
\* acknowledgment; close() has then returned, with the command aborted.
C36_Witness ==
    /\ LoopFailed
    /\ done_task = "done"
    /\ \E p \in Closers : close_pc[p] = "returned"
    /\ \E s \in Issued :
           /\ cmd_info[s].ackcmd = "ABORTED"
           /\ cmd_info[s].resolved = "ABORTED"
           /\ cmd_info[s].result = "shutting down"

(***************************************************************************)
(* C31: historical data                                                    *)
(***************************************************************************)
\* The valid samples of a list of samples as read, as data, in order.
ValidData(data_list) ==
    LET v == SelectSeq(data_list, LAMBDA d : d.valid_data)
    IN  [i \in 1..Len(v) |-> v[i].seq]

\* Of the sequence q, the n newest items, in order.
Newest(n, q) ==
    LET k == IF Len(q) < n THEN Len(q) ELSE n
    IN  [i \in 1..k |-> q[Len(q) - k + i]]

\* The read topic after the step.
TopicStateNext ==
    [data_queue |-> data_queue', current_data |-> current_data',
     callback_log |-> callback_log', next_task |-> next_task',
     pulled |-> pulled', arrived |-> arrived']

\* start() goes past the historical data of an open session.
HistoryRead == start_pc = "waited" /\ start_pc' = "returned" /\ isopen

\* C31: when start() reads the historical data, the event reader (not
\* volatile), if it is open and holds samples, is given the newest
\* max_history of its valid samples, in the order published, by
\* _queue_data as live data are, and all its samples are taken; a closed
\* event reader is given nothing and keeps its samples; the ackcmd reader
\* (volatile) is given nothing: no acknowledgment is taken or handled.
C31_HistoryReplay ==
    [][HistoryRead =>
           LET wanted == reader_isopen["summaryState"] /\ data_wire # <<>>
               given == IF wanted
                        THEN Newest(max_history, ValidData(data_wire))
                        ELSE <<>>
           IN  /\ replayed' = given
               /\ arrived' = arrived \o given
               /\ TopicStateNext = topic_queue_data(TopicState, given)
               /\ data_wire' = IF wanted THEN <<>> ELSE data_wire
               /\ ack_wire' = ack_wire
               /\ cmd_info' = cmd_info
               /\ running_cmds' = running_cmds]_vars

\* With max_history = 2, start() has given the reader the samples 2 and 3
\* of the three published, and they are queued in that order.
C31_Witness ==
    /\ max_history = 2
    /\ num_put = 3
    /\ replayed = <<2, 3>>
    /\ arrived = <<2, 3>>
    /\ data_queue = <<2, 3>>
    /\ current_data = 3

\* A closed event reader held samples when start() read the historical
\* data: the loop runs and the samples are still there.
C31_WitnessClosed ==
    /\ start_task = "done"
    /\ ~reader_isopen["summaryState"]
    /\ isopen
    /\ data_wire # <<>>
    /\ replayed = <<>>
    /\ arrived = <<>>

(***************************************************************************)
(* C32: the result of the wait for historical data                         *)
(***************************************************************************)
\* _wait_history has returned and start() has not yet gone on.
Waited == start_pc = "waited"

\* _wait_history has returned from inside its loop over the readers, at
\* "if not self.isopen: return False": readers are left to look at.
WaitCutShort == Waited /\ history_readers # <<>>

\* start() goes on in an open session after a wait in which readers were
\* checked and none got its historical data, and take_cond does not raise
\* twice.
GoesOnUnsatisfied ==
    /\ Waited
    /\ isopen
    /\ num_checked > 0
    /\ num_ok = 0
    /\ start_pc' # start_pc
    /\ history_errors' < 2

C32_WitnessCutShort ==
    /\ WaitCutShort
    /\ num_checked = 0
    /\ ~isok

(***************************************************************************)
(* C33: invalid samples                                                    *)
(***************************************************************************)
\* The samples the step takes from the event reader (take_cond takes the
\* oldest).
Taken == SubSeq(data_wire, 1, Len(data_wire) - Len(data_wire'))

\* The step is one of the read loop (start() is where it was).
LoopStep == start_pc' = start_pc

\* C33: when start() or the read loop takes samples from the event reader,
\* start() does not raise and the loop goes on; the valid samples taken
\* (for start(): the newest max_history of them) are queued by _queue_data
\* in the order they were published, and the invalid ones are not: if
\* none is valid the read topic is left as it was.
C33_InvalidSkipped ==
    [][Len(data_wire') < Len(data_wire) =>
           LET valid == ValidData(Taken)
               given == IF LoopStep
                        THEN valid ELSE Newest(max_history, valid)
           IN  /\ start_task' = "done"
               /\ read_loop_task' = "running"
               /\ arrived' = arrived \o given
               /\ TopicStateNext = topic_queue_data(TopicState, given)
               /\ valid = <<>> => TopicStateNext = TopicState]_vars

\* The read loop has read the three samples published, of which the
\* second was invalid: the first and the third are queued, in order.
C33_Witness ==
    /\ num_put = 3
    /\ data_wire = <<>>
    /\ replayed = <<>>
    /\ arrived = <<1, 3>>
    /\ data_queue = <<1, 3>>
    /\ read_loop_task = "running"
    /\ start_task = "done"

(***************************************************************************)
(* C34, C35: a read error in the read loop                                 *)
(***************************************************************************)
\* C34: a read (take_cond) that raises in the read loop is tried once
\* more: the loop ends as failed only when a second read has raised too.
C34_ReadErrorRetriedOnce == LoopFailed => read_errors >= 2

\* C35 as claimed: once the read loop has failed, done_task is done,
\* whether or not close() has been called.
C35_FailureResolvesDone == LoopFailed => done_task = "done"

\* C35, amended: the failure of the read loop is logged and nothing else:
\* the loop task is finished, start_task stays done without an exception,
\* and done_task is pending as long as close() has not been called, and
\* done only once a call of close() has returned.
C35_FailureOnlyLogged ==
    /\ [](LoopFailed =>
              /\ read_errors > 0
              /\ start_task = "done"
              /\ isopen => done_task = "pending"
              /\ done_task = "done" =>
                     \E p \in Closers : close_pc[p] = "returned")
    /\ [][read_loop_task # "failed" /\ LoopFailed' =>
              /\ done_task' = done_task
              /\ start_task' = start_task
              /\ isopen' = isopen]_vars

\* The read loop has failed in a session nobody has closed: it is open
\* and done_task is pending.
C35_Witness ==
    /\ LoopFailed
    /\ isopen
    /\ done_task = "pending"
    /\ \A p \in Closers : close_pc[p] = "idle"

(***************************************************************************)
(* C38: nothing is queued once the session is closed                       *)
(***************************************************************************)
\* C38: once isopen is False, no sample is given to the read topic (none
\* arrives, becomes the current data or is passed to a callback) and no
\* acknowledgment is taken from the ackcmd reader, whose samples all go
\* to its callback.
C38_NothingQueuedAfterClose ==
    [][~isopen =>
           /\ arrived' = arrived
           /\ callback_log' = callback_log
           /\ current_data' = current_data
           /\ Len(ack_wire') >= Len(ack_wire)]_vars

====
